---- MODULE Spec2Model ----
(***************************************************************************)
(* A model of rs-handlegraph: the hash-based reference graph (HashGraph)   *)
(* with its edge lists, sequences, paths and node occurrences, and the     *)
(* packed path storage (PackedPath, PackedGraphPaths, PathMutContext).     *)
(***************************************************************************)
EXTENDS Integers, Sequences, FiniteSets, TLC

VARIABLES graph, paths, path_id, packed_paths, path_props, path_names, ctx,
          edges, heads, node_records, cursor, occurs, occur_head, last

vars == <<graph, paths, path_id, packed_paths, path_props, path_names, ctx,
          edges, heads, node_records, cursor, occurs, occur_head, last>>

hashVars == <<graph, paths, path_id>>
packedVars == <<packed_paths, path_props, path_names, ctx>>
edgeVars == <<edges, heads>>
nodeVars == <<node_records>>
navVars == <<cursor>>
occVars == <<occurs, occur_head>>

(***************************************************************************)
(* Bounds of the model.                                                    *)
(***************************************************************************)
MaxNodeId == 2
MaxEdgeEntries == 6
MaxSeqLen == 2
MaxTotalSteps == 3
MaxSegment == 1
MaxPaths == 2
MaxSteps == 4
MaxHandles == 2
MaxRecords == 3

\* the edge lists a client holds the heads of: the left and the right edge
\* list of one node record
ListCount == 2

NodeIds == 1..MaxNodeId

(***************************************************************************)
(* Generic helpers over sequences.                                         *)
(***************************************************************************)
Range(s) == {s[i] : i \in DOMAIN s}

SeqsUpTo(S, n) == UNION {[1..k -> S] : k \in 0..n}

RECURSIVE Flatten(_)
Flatten(ss) == IF ss = <<>> THEN <<>> ELSE Head(ss) \o Flatten(Tail(ss))

Count(s, x) == Cardinality({i \in DOMAIN s : s[i] = x})

RECURSIVE SortedSeq(_)
SortedSeq(S) ==
    IF S = {} THEN <<>>
    ELSE LET m == CHOOSE x \in S : \A y \in S : x <= y
         IN <<m>> \o SortedSeq(S \ {m})

(***************************************************************************)
(* Handles: a node id with an orientation bit in the low bit.              *)
(***************************************************************************)
pack(id, is_rev) == 2 * id + (IF is_rev THEN 1 ELSE 0)

id(h) == h \div 2

is_reverse(h) == h % 2 = 1

flip(h) == IF is_reverse(h) THEN h - 1 ELSE h + 1

Handles == {pack(n, r) : n \in NodeIds, r \in BOOLEAN}

\* Edge::edge_handle: the one representative of the two spellings
\* (l, r) and (flip(r), flip(l)) of an edge.
edge_handle(l, r) ==
    IF l > flip(r) THEN <<flip(r), flip(l)>> ELSE <<l, r>>

(***************************************************************************)
(* DNA sequences.                                                          *)
(***************************************************************************)
Bases == {"A", "C", "G", "T"}

complement(b) ==
    CASE b = "A" -> "T"
      [] b = "T" -> "A"
      [] b = "C" -> "G"
      [] b = "G" -> "C"

revcomp(s) == [i \in 1..Len(s) |-> complement(s[Len(s) + 1 - i])]

DnaSequences == UNION {[1..k -> Bases] : k \in 1..MaxSeqLen}

(***************************************************************************)
(* HashGraph: nodes.                                                       *)
(***************************************************************************)
\* Node::new
NewNode(sequence) ==
    [sequence |-> sequence, left_edges |-> <<>>, right_edges |-> <<>>,
     occurrences |-> <<>>]

has_node(g, node_id) == node_id \in DOMAIN g

ExistingHandles(g) == {h \in Handles : has_node(g, id(h))}

\* HashMap::insert replaces the value of a key that is present.
create_handle(g, seq, node_id) == (node_id :> NewNode(seq)) @@ g

get_sequence(g, handle) == g[id(handle)].sequence

(***************************************************************************)
(* HashGraph: edges.                                                       *)
(***************************************************************************)
\* the edge list of the node of handle that a traversal in direction dir
\* reads
ActiveList(g, handle, dir) ==
    IF is_reverse(handle) # (dir = "Left")
    THEN g[id(handle)].left_edges
    ELSE g[id(handle)].right_edges

\* the handles passed to the callback, in order, when it never stops
follow_edges(g, handle, dir) ==
    LET handles == ActiveList(g, handle, dir)
    IN [i \in 1..Len(handles) |->
            IF dir = "Left" THEN flip(handles[i]) ELSE handles[i]]

\* the handles the iterator yields, in order
handle_edges_iter_impl(g, handle, dir) == ActiveList(g, handle, dir)

has_edge(g, left, right) == right \in Range(follow_edges(g, left, "Right"))

PushLeft(g, n, h) ==
    [g EXCEPT ![n].left_edges = Append(@, h)]

PushRight(g, n, h) ==
    [g EXCEPT ![n].right_edges = Append(@, h)]

\* create_edge storing the left handle unflipped on the right node
create_edge_unflipped(g, left, right) ==
    LET add_edge == right \notin Range(g[id(left)].right_edges)
        g1 == IF is_reverse(left)
              THEN PushLeft(g, id(left), right)
              ELSE PushRight(g, id(left), right)
        g2 == IF left # flip(right)
              THEN IF is_reverse(right)
                   THEN PushRight(g1, id(right), left)
                   ELSE PushLeft(g1, id(right), left)
              ELSE g1
    IN IF add_edge THEN g2 ELSE g

create_edge(g, left, right) ==
    LET add_edge == right \notin Range(g[id(left)].right_edges)
        g1 == IF is_reverse(left)
              THEN PushLeft(g, id(left), right)
              ELSE PushRight(g, id(left), right)
        g2 == IF left # flip(right)
              THEN IF is_reverse(right)
                   THEN PushRight(g1, id(right), flip(left))
                   ELSE PushLeft(g1, id(right), flip(left))
              ELSE g1
    IN IF add_edge THEN g2 ELSE g

RECURSIVE SumEdges(_, _)
SumEdges(g, S) ==
    IF S = {} THEN 0
    ELSE LET n == CHOOSE x \in S : TRUE
         IN Len(g[n].left_edges) + Len(g[n].right_edges)
            + SumEdges(g, S \ {n})

get_edge_count(g) == SumEdges(g, DOMAIN g)

\* for_each_handle visits the forward handle of every key of the map; the
\* map's iteration order is unspecified, the model takes increasing ids.
for_each_handle(g) ==
    LET keys == SortedSeq(DOMAIN g)
    IN [i \in 1..Len(keys) |-> pack(keys[i], FALSE)]

RightEmits(handle, nexts) ==
    LET kept == SelectSeq(nexts, LAMBDA next : id(handle) <= id(next))
    IN [i \in 1..Len(kept) |-> edge_handle(handle, kept[i])]

LeftEmits(handle, prevs) ==
    LET kept == SelectSeq(prevs,
                    LAMBDA prev : \/ id(handle) < id(prev)
                                  \/ (id(handle) = id(prev) /\ is_reverse(prev)))
    IN [i \in 1..Len(kept) |-> edge_handle(kept[i], handle)]

\* the edges passed to the callback, in order, when it never stops
for_each_edge(g) ==
    LET hs == for_each_handle(g)
    IN Flatten([i \in 1..Len(hs) |->
            RightEmits(hs[i], follow_edges(g, hs[i], "Right"))
            \o LeftEmits(hs[i], follow_edges(g, hs[i], "Left"))])

\* the edges the edges iterator yields, in order
edges_iter_impl(g) ==
    LET hs == for_each_handle(g)
    IN Flatten([i \in 1..Len(hs) |->
            RightEmits(hs[i], handle_edges_iter_impl(g, hs[i], "Right"))
            \o LeftEmits(hs[i], handle_edges_iter_impl(g, hs[i], "Left"))])

(***************************************************************************)
(* HashGraph: paths and node occurrences.  Step indices are zero-based as  *)
(* in the source; path.nodes[ix] of the source is nodes[ix + 1] here.      *)
(***************************************************************************)
PathNames == {"p1", "p2"}

\* HashMap::insert and HashMap::remove
MapInsert(m, k, v) == (k :> v) @@ m

MapRemove(m, k) == [x \in DOMAIN m \ {k} |-> m[x]]

\* PathStep
Front(pid) == [kind |-> "Front", path |-> pid]
End(pid) == [kind |-> "End", path |-> pid]
Step(pid, ix) == [kind |-> "Step", path |-> pid, ix |-> ix]

\* Path::new
NewPath(name, pid, is_circular) ==
    [path_id |-> pid, name |-> name, is_circular |-> is_circular,
     nodes |-> <<>>]

get_step_count(ps, pid) == Len(ps[pid].nodes)

\* the number of steps stored over all paths
RECURSIVE TotalStepsOf(_, _)
TotalStepsOf(ps, S) ==
    IF S = {} THEN 0
    ELSE LET p == CHOOSE x \in S : TRUE
         IN Len(ps[p].nodes) + TotalStepsOf(ps, S \ {p})

TotalSteps(ps) == TotalStepsOf(ps, DOMAIN ps)

\* the (path, step index) pairs for_each_step_on_handle and
\* handle_occurrences_iter enumerate for a handle
occurrences(g, handle) ==
    LET occ == g[id(handle)].occurrences
    IN {<<p, occ[p]>> : p \in DOMAIN occ}

SetOccurrence(g, n, pid, ix) ==
    [g EXCEPT ![n].occurrences = MapInsert(@, pid, ix)]

RemoveOccurrence(g, n, pid) ==
    [g EXCEPT ![n].occurrences = MapRemove(@, pid)]

\* the loop of prepend_step: one increment per step of the path
RECURSIVE BumpOccurrences(_, _, _)
BumpOccurrences(g, nodes, pid) ==
    IF nodes = <<>> THEN g
    ELSE BumpOccurrences(
            [g EXCEPT ![id(Head(nodes))].occurrences[pid] = @ + 1],
            Tail(nodes), pid)

\* the first loop of rewrite_segment: drop the entry of every node in range
RECURSIVE RemoveOccurrences(_, _, _)
RemoveOccurrences(g, nodes, pid) ==
    IF nodes = <<>> THEN g
    ELSE RemoveOccurrences(RemoveOccurrence(g, id(Head(nodes)), pid),
                           Tail(nodes), pid)

\* the last loop of rewrite_segment: (ix, handle) over the whole path,
\* starting at index ix
RECURSIVE InsertOccurrences(_, _, _, _)
InsertOccurrences(g, nodes, pid, ix) ==
    IF nodes = <<>> THEN g
    ELSE InsertOccurrences(SetOccurrence(g, id(Head(nodes)), pid, ix),
                           Tail(nodes), pid, ix + 1)

\* rewrite_segment's step_index closure
step_index(s, path_len) ==
    CASE s.kind = "Front" -> 0
      [] s.kind = "End" -> path_len - 1
      [] s.kind = "Step" -> s.ix

\* Vec::splice of the inclusive zero-based range l..=r
Splice(nodes, l, r, new_segment) ==
    SubSeq(nodes, 1, l) \o new_segment \o SubSeq(nodes, r + 2, Len(nodes))

\* rewrite_segment after its test of the two path ids: the steps l..=r of
\* the path pid are replaced
RewriteRange(g, ps, pid, l, r, new_segment) ==
    LET removed == RemoveOccurrences(g, SubSeq(ps[pid].nodes, l + 1, r + 1), pid)
        handles == Splice(ps[pid].nodes, l, r, new_segment)
    IN [graph |-> InsertOccurrences(removed, handles, pid, 0),
        paths |-> [ps EXCEPT ![pid].nodes = handles],
        panic |-> FALSE,
        steps |-> <<Step(pid, l), Step(pid, l + Len(new_segment))>>]

\* rewrite_segment without the test of the two path ids: the index of end
\* is taken as an index of the path of begin
rewrite_segment_unchecked(g, ps, begin, end, new_segment) ==
    LET path_len == Len(ps[begin.path].nodes)
        l == step_index(begin, path_len)
        r == step_index(end, path_len)
    IN IF 0 <= l /\ l <= r /\ r < path_len
       THEN RewriteRange(g, ps, begin.path, l, r, new_segment)
       ELSE [graph |-> g, paths |-> ps, panic |-> TRUE, steps |-> <<>>]

\* HashGraph::rewrite_segment; panic: the call ended in panic!
rewrite_segment(g, ps, begin, end, new_segment) ==
    IF begin.path # end.path
    THEN [graph |-> g, paths |-> ps, panic |-> TRUE, steps |-> <<>>]
    ELSE LET path_len == Len(ps[begin.path].nodes)
         IN RewriteRange(g, ps, begin.path,
                         step_index(begin, path_len),
                         step_index(end, path_len), new_segment)

(***************************************************************************)
(* Packed vectors and one-based record indices.  Vectors are zero-based    *)
(* in the source: element i of a vector is v[i + 1] here.  The null index  *)
(* is 0.                                                                   *)
(***************************************************************************)
VecGet(v, i) == v[i + 1]

VecSet(v, i, x) == [v EXCEPT ![i + 1] = x]

is_null(ix) == ix = 0

\* OneBasedIndex::from_zero_based
from_zero_based(i) == i + 1

\* OneBasedIndex::to_record_ix, for an index that is not null: the vector
\* position of field offset of the record of width fields
to_record_ix(ix, width, offset) == (ix - 1) * width + offset

(***************************************************************************)
(* PackedPath: steps and links.                                            *)
(***************************************************************************)
\* PackedPath::new
NewPackedPath == [steps |-> <<>>, links |-> <<>>]

\* PackedPath::append_handle; the new step is from_zero_based(Len(steps))
PathAppendHandle(path, handle) ==
    [steps |-> Append(path.steps, handle),
     links |-> path.links \o <<0, 0>>]

prev_step(path, ix) == VecGet(path.links, to_record_ix(ix, 2, 0))

next_step(path, ix) == VecGet(path.links, to_record_ix(ix, 2, 1))

\* PackedPath::insert_after, for a step ix that is not null
insert_after(path, ix, handle) ==
    LET new_ix == from_zero_based(Len(path.steps))
        ix_next == VecGet(path.links, to_record_ix(ix, 2, 1))
        l1 == IF ~is_null(ix_next)
              THEN VecSet(path.links, to_record_ix(ix_next, 2, 0), new_ix)
              ELSE path.links
        l2 == l1 \o <<ix, ix_next>>
    IN [steps |-> Append(path.steps, handle),
        links |-> VecSet(l2, to_record_ix(ix, 2, 1), new_ix)]

\* PackedPath::insert_before, for a step ix that is not null
insert_before(path, ix, handle) ==
    LET new_ix == from_zero_based(Len(path.steps))
        ix_prev == VecGet(path.links, to_record_ix(ix, 2, 0))
        l1 == IF ~is_null(ix_prev)
              THEN VecSet(path.links, to_record_ix(ix_prev, 2, 1), new_ix)
              ELSE path.links
        l2 == l1 \o <<ix_prev, ix>>
    IN [steps |-> Append(path.steps, handle),
        links |-> VecSet(l2, to_record_ix(ix, 2, 0), new_ix)]

(***************************************************************************)
(* PackedPathRefMut: a path, the property record read when the reference   *)
(* was made, and the head and tail as updated by the mutations.            *)
(* A reference is modelled as [path, properties, updates]; each mutation   *)
(* returns the new reference and the StepUpdates it reports.               *)
(***************************************************************************)
\* PathProperties::append_record: a path starts with null head and tail
NewProperties ==
    [head |-> 0, tail |-> 0, circular |-> FALSE, deleted_steps |-> 0]

\* PathUpdate::new
NewPathUpdate(prop) == [head |-> prop.head, tail |-> prop.tail]

\* PackedPathRefMut::new
NewRefMut(pid, path, properties) ==
    [path_id |-> pid, path |-> path, properties |-> properties,
     updates |-> NewPathUpdate(properties)]

StepUpdate(handle, step) == [handle |-> handle, step |-> step]

\* append_handle without the head of a path that was empty
append_handle_keep_head(ref, handle) ==
    LET tail == ref.updates.tail
        step == from_zero_based(Len(ref.path.steps))
        p1 == PathAppendHandle(ref.path, handle)
        l1 == VecSet(p1.links, to_record_ix(step, 2, 0), tail)
        l2 == IF ~is_null(tail)
              THEN VecSet(l1, to_record_ix(tail, 2, 1), step)
              ELSE l1
    IN [ref |-> [ref EXCEPT !.path = [p1 EXCEPT !.links = l2],
                            !.updates = [head |-> ref.updates.head,
                                         tail |-> step]],
        out |-> <<StepUpdate(handle, step)>>]

append_handle(ref, handle) ==
    LET tail == ref.updates.tail
        step == from_zero_based(Len(ref.path.steps))
        p1 == PathAppendHandle(ref.path, handle)
        l1 == VecSet(p1.links, to_record_ix(step, 2, 0), tail)
        head2 == IF is_null(ref.updates.head) THEN step
                 ELSE ref.updates.head
        l2 == IF ~is_null(tail)
              THEN VecSet(l1, to_record_ix(tail, 2, 1), step)
              ELSE l1
    IN [ref |-> [ref EXCEPT !.path = [p1 EXCEPT !.links = l2],
                            !.updates = [head |-> head2, tail |-> step]],
        out |-> <<StepUpdate(handle, step)>>]

prepend_handle(ref, handle) ==
    LET head == ref.updates.head
        step == from_zero_based(Len(ref.path.steps))
        p1 == PathAppendHandle(ref.path, handle)
        l1 == VecSet(p1.links, to_record_ix(step, 2, 1), head)
        tail2 == IF is_null(ref.updates.tail) THEN step
                 ELSE ref.updates.tail
        l2 == IF ~is_null(head)
              THEN VecSet(l1, to_record_ix(head, 2, 1), step)
              ELSE l1
    IN [ref |-> [ref EXCEPT !.path = [p1 EXCEPT !.links = l2],
                            !.updates = [head |-> step, tail |-> tail2]],
        out |-> <<StepUpdate(handle, step)>>]

\* the closure append_handles maps over the handles after the first; acc is
\* [ref, tail, out] with tail the closure's local variable
RECURSIVE AppendRest(_, _)
AppendRest(acc, handles) ==
    IF handles = <<>> THEN acc
    ELSE LET handle == Head(handles)
             ref == acc.ref
             tail == acc.tail
             step == from_zero_based(Len(ref.path.steps))
             p1 == PathAppendHandle(ref.path, handle)
             l1 == VecSet(p1.links, to_record_ix(step, 2, 0), tail)
             head2 == IF is_null(ref.updates.head) THEN step
                      ELSE ref.updates.head
             l2 == IF ~is_null(tail)
                   THEN VecSet(l1, to_record_ix(tail, 2, 1), step)
                   ELSE l1
         IN AppendRest(
              [ref |-> [ref EXCEPT !.path = [p1 EXCEPT !.links = l2],
                                   !.updates.head = head2],
               tail |-> step,
               out |-> Append(acc.out, StepUpdate(handle, step))],
              Tail(handles))

append_handles(ref, handles) ==
    IF handles = <<>> THEN [ref |-> ref, out |-> <<>>]
    ELSE LET tail == ref.updates.tail
             first == append_handle(ref, Head(handles))
             rest == AppendRest([ref |-> first.ref, tail |-> tail,
                                 out |-> <<>>],
                                Tail(handles))
         IN [ref |-> [rest.ref EXCEPT !.updates.tail = rest.tail],
             out |-> rest.out \o first.out]

(***************************************************************************)
(* PackedPathNames and PackedGraphPaths.                                   *)
(***************************************************************************)
NoNames ==
    [name_id_map |-> <<>>, names |-> <<>>, lengths |-> <<>>,
     offsets |-> <<>>]

add_name(pn, name) ==
    LET pid == Len(pn.lengths)
        name_len == Len(name)
        name_offset == Len(pn.lengths)
    IN [name_id_map |-> (name :> pid) @@ pn.name_id_map,
        names |-> pn.names \o name,
        lengths |-> Append(pn.lengths, name_len),
        offsets |-> Append(pn.offsets, name_offset)]

\* Drop for PathMutContext: the fields written to the property vectors
DropRecord(ref) ==
    [head |-> ref.properties.head, tail |-> ref.properties.tail,
     circular |-> ref.properties.circular,
     deleted_steps |-> ref.properties.deleted_steps]

(***************************************************************************)
(* EdgeLists: the edge records (Handle, EdgeListIx) of all edge lists in   *)
(* one vector, two elements per record, and the ids of removed records.    *)
(***************************************************************************)
None == [some |-> FALSE]
Some(x) == [some |-> TRUE, value |-> x]

\* EdgeLists::default
NoEdgeLists == [record_vec |-> <<>>, removed_records |-> <<>>]

EdgeRecordCount(e) == Len(e.record_vec) \div 2

\* EdgeLists::len
EdgeListsLen(e) == EdgeRecordCount(e) - Len(e.removed_records)

get_handle(e, ix) == VecGet(e.record_vec, to_record_ix(ix, 2, 0))
get_next(e, ix) == VecGet(e.record_vec, to_record_ix(ix, 2, 1))

\* the list with the new record (handle, next) at the end of the vector;
\* the id of the new record is EdgeRecordCount of the new list
append_record(e, handle, next) ==
    [e EXCEPT !.record_vec = @ \o <<handle, next>>]

\* EdgeLists::iter: the (edge id, (handle, next)) pairs met by following
\* next from ix until the null id; limit bounds the records visited
RECURSIVE EdgeIter(_, _, _)
EdgeIter(e, ix, limit) ==
    IF is_null(ix) \/ limit = 0 THEN <<>>
    ELSE <<[ix |-> ix, handle |-> get_handle(e, ix),
            next |-> get_next(e, ix)]>>
         \o EdgeIter(e, get_next(e, ix), limit - 1)

iter(e, ix) == EdgeIter(e, ix, EdgeRecordCount(e) + 1)

\* remove_at_pointer that does not put the id on the free list
remove_at_pointer_no_push(e, ptr) ==
    IF is_null(ptr) THEN [list |-> e, next |-> None]
    ELSE LET h_ix == to_record_ix(ptr, 2, 0)
             n_ix == h_ix + 1
             next == VecGet(e.record_vec, n_ix)
         IN [list |-> [e EXCEPT !.record_vec =
                          VecSet(VecSet(e.record_vec, h_ix, 0), n_ix, 0)],
             next |-> Some(next)]

\* remove_at_pointer that returns the next pointer it has just zeroed
remove_at_pointer_zeroed_next(e, ptr) ==
    IF is_null(ptr) THEN [list |-> e, next |-> None]
    ELSE LET h_ix == to_record_ix(ptr, 2, 0)
             n_ix == h_ix + 1
         IN [list |-> [record_vec |-> VecSet(VecSet(e.record_vec, h_ix, 0),
                                             n_ix, 0),
                       removed_records |-> Append(e.removed_records, ptr)],
             next |-> Some(0)]

\* the list after remove_at_pointer, and the pointer it returns
remove_at_pointer(e, ptr) ==
    IF is_null(ptr) THEN [list |-> e, next |-> None]
    ELSE LET h_ix == to_record_ix(ptr, 2, 0)
             n_ix == h_ix + 1
             next == VecGet(e.record_vec, n_ix)
         IN [list |-> [record_vec |-> VecSet(VecSet(e.record_vec, h_ix, 0),
                                             n_ix, 0),
                       removed_records |-> Append(e.removed_records, ptr)],
             next |-> Some(next)]

\* remove_next that leaves the next pointer of ptr on the removed record
remove_next_no_link(e, ptr) ==
    IF is_null(ptr) THEN e
    ELSE remove_at_pointer(e,
            VecGet(e.record_vec, to_record_ix(ptr, 2, 1))).list

\* the list after remove_next: the record after ptr is removed and ptr is
\* linked to the record that followed it
remove_next(e, ptr) ==
    IF is_null(ptr) THEN e
    ELSE LET record_next_vec_ix == to_record_ix(ptr, 2, 1)
             next_edge_ix == VecGet(e.record_vec, record_next_vec_ix)
             removed == remove_at_pointer(e, next_edge_ix)
         IN IF ~removed.next.some THEN e
            ELSE [removed.list EXCEPT !.record_vec =
                     VecSet(@, record_next_vec_ix, removed.next.value)]

\* the predicates the callers hand to iter_mut: on the id of the record
\* (|x, _| x == rem_ix), on the parity of the id of the target node, on a
\* null next pointer, and the predicate that holds of every record
IxPred(ix) == [kind |-> "ix", ix |-> ix]
ParityPred(r) == [kind |-> "parity", r |-> r]
LastPred == [kind |-> "next_is_null"]
AnyPred == [kind |-> "any"]

Holds(pred, rec) ==
    CASE pred.kind = "ix" -> rec.ix = pred.ix
      [] pred.kind = "parity" -> id(rec.handle) % 2 = pred.r
      [] pred.kind = "next_is_null" -> is_null(rec.next)
      [] pred.kind = "any" -> TRUE

\* the positions in the list from head of the records pred holds of
Matches(e, head, pred) ==
    LET records == iter(e, head)
    IN {i \in 1..Len(records) : Holds(pred, records[i])}

Min(S) == CHOOSE x \in S : \A y \in S : x <= y

\* iter_mut(head).remove_record_with(pred): the list after the call and
\* the head it returns
remove_record_with(e, head, pred) ==
    IF is_null(head) THEN [list |-> e, head |-> None]
    ELSE LET matches == Matches(e, head, pred)
         IN IF matches = {}
            THEN [list |-> e, head |-> Some(head)]
            ELSE LET i == Min(matches)
                 IN IF i = 1
                    THEN LET removed == remove_at_pointer(e, head)
                         IN [list |-> removed.list, head |-> removed.next]
                    ELSE [list |->
                             remove_next(e, iter(e, head)[i - 1].ix),
                          head |-> Some(head)]

\* iter_mut(head).remove_all_records_with(pred): remove_record_with applied
\* until pred holds of no record of the list
RECURSIVE remove_all_records_with(_, _, _)
remove_all_records_with(e, head, pred) ==
    IF is_null(head) \/ Matches(e, head, pred) = {}
    THEN [list |-> e, head |-> Some(head)]
    ELSE LET once == remove_record_with(e, head, pred)
         IN remove_all_records_with(once.list, once.head.value, pred)

\* the vector left in the order of the removals
Unsorted(s) == s

\* Vec::sort
RECURSIVE Sorted(_)
Sorted(s) ==
    IF s = <<>> THEN <<>>
    ELSE LET i == CHOOSE i \in DOMAIN s : \A j \in DOMAIN s : s[i] <= s[j]
         IN <<s[i]>> \o Sorted(SubSeq(s, 1, i - 1) \o SubSeq(s, i + 1, Len(s)))

\* the map of the ids after the first removed one: every id below max_ix
\* that is not removed goes to the next free new id
removed_id_map_as_u64(removed, max_ix) ==
    [ix \in {x \in (removed[1] + 1)..(max_ix - 1) : x \notin Range(removed)}
        |-> ix - Cardinality({r \in Range(removed) : r < ix})]

\* the id map of defragment: the ids before the first removed one go to
\* themselves, the ids after it as removed_id_map_as_u64 says
defragment_id_map(removed, total_records) ==
    LET first_removed == removed[1]
        max_ix == from_zero_based(total_records)
    IN [ix \in 1..(first_removed - 1) |-> ix]
       @@ removed_id_map_as_u64(removed, max_ix)

\* defragment_records that copies the next pointers as they are
defragment_records_keep_next(e, id_map, total_records) ==
    LET new_record(old_ix) ==
            IF old_ix \notin DOMAIN id_map THEN <<>>
            ELSE <<get_handle(e, old_ix), get_next(e, old_ix)>>
    IN Flatten([i \in 1..total_records |-> new_record(i)])

\* the new record vector of defragment: the records with an id in the map,
\* in the order of their old ids, each next pointer sent through the map; a
\* record whose next pointer is not in the map is left out
defragment_records(e, id_map, total_records) ==
    LET kept(old_ix) ==
            /\ old_ix \in DOMAIN id_map
            /\ \/ is_null(get_next(e, old_ix))
               \/ get_next(e, old_ix) \in DOMAIN id_map
        new_record(old_ix) ==
            IF ~kept(old_ix) THEN <<>>
            ELSE <<get_handle(e, old_ix),
                   IF is_null(get_next(e, old_ix)) THEN 0
                   ELSE id_map[get_next(e, old_ix)]>>
    IN Flatten([i \in 1..total_records |-> new_record(i)])

\* defragment that hands out the identity map when no record is removed
defragment_identity_map(e) ==
    LET removed == Sorted(e.removed_records)
        total_records == EdgeListsLen(e) + Len(removed)
        id_map == IF removed = <<>> THEN [ix \in 1..total_records |-> ix]
                  ELSE defragment_id_map(removed, total_records)
    IN [list |-> [record_vec |-> defragment_records(e, id_map, total_records),
                  removed_records |-> <<>>],
        map |-> Some(id_map)]

\* the list after EdgeLists::defragment, and the id map it returns
defragment(e) ==
    LET removed == Sorted(e.removed_records)
    IN IF removed = <<>> THEN [list |-> e, map |-> None]
       ELSE LET num_records == EdgeListsLen(e)
                total_records == num_records + Len(removed)
                id_map == defragment_id_map(removed, total_records)
            IN [list |-> [record_vec |->
                             defragment_records(e, id_map, total_records),
                          removed_records |-> <<>>],
                map |-> Some(id_map)]

(***************************************************************************)
(* NodeRecords: the map from node id to record index, the graph records    *)
(* (two edge list heads per node), the sequence records and the occurrence *)
(* heads of the nodes of the packed graph.                                 *)
(***************************************************************************)
\* The node ids offered to NodeRecords: 0 (not a valid id) and ids with gaps.
PackedNodeIds == 0..(MaxNodeId + 1)

\* std::u64::MAX as the min_id of the empty map: greater than every node id.
U64_MAX == MaxNodeId + 3

Zeros(n) == [i \in 1..n |-> 0]

\* NodeIdIndexMap::default
NoNodeIdIndexMap == [deque |-> <<>>, max_id |-> 0, min_id |-> U64_MAX]

\* NodeRecords::default
NoNodeRecords ==
    [records_vec |-> <<>>,
     id_index_map |-> NoNodeIdIndexMap,
     sequences |-> <<>>,
     removed_nodes |-> <<>>,
     node_occurrence_map |-> <<>>]

\* NodeIdIndexMap::len
id_index_map_len(m) == Len(m.deque)

\* NodeIdIndexMap::clear_node_id
clear_node_id(m, n_id) == [m EXCEPT !.deque = VecSet(@, n_id - m.min_id, 0)]

\* append_node_id that grows the deque at the back also for an id below
\* min_id
append_node_id_back_only(m, n_id, next_ix) ==
    IF n_id = 0
    THEN [map |-> m, ok |-> FALSE]
    ELSE LET empty == m.deque = <<>>
             front == IF empty
                      THEN <<0>>
                      ELSE IF n_id < m.min_id
                           THEN m.deque \o Zeros(m.min_id - n_id)
                           ELSE m.deque
             back == IF /\ ~empty
                        /\ n_id > m.max_id
                        /\ n_id - m.min_id >= Len(front)
                     THEN front \o Zeros(n_id - m.min_id - Len(front) + 1)
                     ELSE front
             min_id == IF n_id < m.min_id THEN n_id ELSE m.min_id
             max_id == IF n_id > m.max_id THEN n_id ELSE m.max_id
         IN [map |-> [deque |-> VecSet(back, n_id - min_id, next_ix),
                      max_id |-> max_id,
                      min_id |-> min_id],
             ok |-> TRUE]

\* NodeIdIndexMap::append_node_id: the deque grows at the front or the back
\* until it covers the id, then the entry of the id is written.
append_node_id(m, n_id, next_ix) ==
    IF n_id = 0
    THEN [map |-> m, ok |-> FALSE]
    ELSE LET empty == m.deque = <<>>
             front == IF empty
                      THEN <<0>>
                      ELSE IF n_id < m.min_id
                           THEN Zeros(m.min_id - n_id) \o m.deque
                           ELSE m.deque
             back == IF /\ ~empty
                        /\ n_id > m.max_id
                        /\ n_id - m.min_id >= Len(front)
                     THEN front \o Zeros(n_id - m.min_id - Len(front) + 1)
                     ELSE front
             min_id == IF n_id < m.min_id THEN n_id ELSE m.min_id
             max_id == IF n_id > m.max_id THEN n_id ELSE m.max_id
         IN [map |-> [deque |-> VecSet(back, n_id - min_id, next_ix),
                      max_id |-> max_id,
                      min_id |-> min_id],
             ok |-> TRUE]

\* NodeIdIndexMap::get_index
get_index(m, n_id) ==
    IF n_id < m.min_id \/ n_id > m.max_id
    THEN None
    ELSE LET rec_id == VecGet(m.deque, n_id - m.min_id)
         IN IF is_null(rec_id) THEN None ELSE Some(rec_id)

\* NodeRecords::has_node
records_has_node(n, n_id) == get_index(n.id_index_map, n_id).some

\* NodeRecords::node_count
node_count(n) == id_index_map_len(n.id_index_map)

\* NodeRecords::next_graph_ix
next_graph_ix(n) == (Len(n.records_vec) \div 2) + 1

\* Sequences::append_empty_record, add_sequence and clear_record.
append_empty_record(seqs) == Append(seqs, <<>>)

add_sequence(seqs, ix, seq) == [seqs EXCEPT ![ix] = seq]

clear_record(seqs, ix) == [seqs EXCEPT ![ix] = <<>>]

\* NodeRecords::append_node_graph_record
append_node_graph_record(n, g_rec_ix) ==
    IF next_graph_ix(n) # g_rec_ix
    THEN [nodes |-> n, result |-> None]
    ELSE [nodes |-> [n EXCEPT !.records_vec = @ \o <<0, 0>>,
                              !.node_occurrence_map = Append(@, 0)],
          result |-> Some(g_rec_ix)]

\* insert_node that drops its own test of the id and does not look at the
\* answer of append_node_id.
insert_node_unchecked(n, n_id) ==
    LET next_ix == next_graph_ix(n)
        app == append_node_id(n.id_index_map, n_id, next_ix)
        withSeq == [n EXCEPT !.id_index_map = app.map,
                             !.sequences = append_empty_record(@)]
    IN append_node_graph_record(withSeq, next_ix)

\* NodeRecords::insert_node
insert_node(n, n_id) ==
    IF n_id = 0
    THEN [nodes |-> n, result |-> None]
    ELSE LET next_ix == next_graph_ix(n)
             app == append_node_id(n.id_index_map, n_id, next_ix)
         IN IF ~app.ok
            THEN [nodes |-> n, result |-> None]
            ELSE LET withSeq == [n EXCEPT !.id_index_map = app.map,
                                          !.sequences = append_empty_record(@)]
                 IN append_node_graph_record(withSeq, next_ix)

\* NodeRecords::create_node
create_node(n, n_id, seq) ==
    LET ins == insert_node(n, n_id)
    IN IF ~ins.result.some
       THEN ins
       ELSE [nodes |-> [ins.nodes EXCEPT !.sequences =
                            add_sequence(@, ins.result.value, seq)],
             result |-> ins.result]

\* NodeRecords::clear_node_record: the second write to the graph record goes
\* to the same slot as the first and stores 1.
clear_node_record(n, n_id) ==
    LET found == get_index(n.id_index_map, n_id)
    IN IF ~found.some
       THEN [nodes |-> n, result |-> None]
       ELSE LET rec_id == found.value
                occ_map_ix == to_record_ix(rec_id, 1, 0)
                rec_ix == to_record_ix(rec_id, 2, 0)
            IN [nodes |->
                    [records_vec |-> VecSet(VecSet(n.records_vec, rec_ix, 0), rec_ix, 1),
                     id_index_map |-> clear_node_id(n.id_index_map, n_id),
                     sequences |-> clear_record(n.sequences, rec_id),
                     removed_nodes |-> Append(n.removed_nodes, n_id),
                     node_occurrence_map |-> VecSet(n.node_occurrence_map, occ_map_ix, 0)],
                result |-> Some(TRUE)]

(***************************************************************************)
(* Initial state: HashGraph::new and PackedGraphPaths::default.            *)
(***************************************************************************)
NoOp == [op |-> "none"]

\* NodeOccurrences::default
NoOccurrences ==
    [path_ids |-> <<>>, node_occur_offsets |-> <<>>,
     node_occur_next |-> <<>>, removed_records |-> <<>>]

\* no step handle is held
NoCursor == [kind |-> "None"]
NoCtx == [open |-> FALSE]

Init ==
    /\ graph = <<>>
    /\ paths = <<>>
    /\ path_id = <<>>
    /\ packed_paths = <<>>
    /\ path_props = <<>>
    /\ path_names = NoNames
    /\ ctx = NoCtx
    /\ edges = NoEdgeLists
    /\ heads = [k \in 1..ListCount |-> 0]
    /\ node_records = NoNodeRecords
    /\ cursor = NoCursor
    /\ occurs = NoOccurrences
    /\ occur_head = 0
    /\ last = NoOp

(***************************************************************************)
(* Actions of the hash graph: nodes and edges.                             *)
(***************************************************************************)
\* create_handle with an id that is not in use
CreateHandle(seq, node_id) ==
    /\ seq # <<>>
    /\ ~has_node(graph, node_id)
    /\ graph' = create_handle(graph, seq, node_id)
    /\ last' = [op |-> "create_handle", id |-> node_id]
    /\ UNCHANGED <<paths, path_id, packedVars, edgeVars, nodeVars, navVars, occVars>>

CreateEdge(left, right) ==
    /\ has_node(graph, id(left))
    /\ has_node(graph, id(right))
    /\ get_edge_count(graph) + 2 <= MaxEdgeEntries
    /\ graph' = create_edge(graph, left, right)
    /\ last' = [op |-> "create_edge", left |-> left, right |-> right]
    /\ UNCHANGED <<paths, path_id, packedVars, edgeVars, nodeVars, navVars, occVars>>

NextEdges ==
    \/ \E n \in NodeIds : CreateHandle(<<"A">>, n)
    \/ \E l \in Handles, r \in Handles : CreateEdge(l, r)

SpecEdges == Init /\ [][NextEdges]_vars

NextSeq == \E n \in NodeIds, s \in DnaSequences : CreateHandle(s, n)

SpecSeq == Init /\ [][NextSeq]_vars

(***************************************************************************)
(* Properties of the hash graph's edges and sequences.                     *)
(***************************************************************************)
Directions == {"Left", "Right"}

\* the edges of the graph, each in its one canonical spelling
EdgeSet(g) ==
    {edge_handle(p[1], p[2]) :
        p \in {q \in ExistingHandles(g) \X ExistingHandles(g) :
                    has_edge(g, q[1], q[2])}}

\* C1: edge symmetry. For all handles a and b of existing nodes, b is among
\* the right neighbours of a exactly when flip(a) is among the right
\* neighbours of flip(b): has_edge(a, b) <=> has_edge(flip(b), flip(a)).
C1_EdgeSymmetry ==
    \A a \in ExistingHandles(graph), b \in ExistingHandles(graph) :
        has_edge(graph, a, b) <=> has_edge(graph, flip(b), flip(a))

\* an edge from a reverse handle to another node has just been created and
\* is present
C1_Witness ==
    /\ last.op = "create_edge"
    /\ is_reverse(last.left)
    /\ id(last.left) # id(last.right)
    /\ has_edge(graph, last.left, last.right)
    /\ has_edge(graph, flip(last.right), flip(last.left))

\* C2: has_edge(a, b) is true immediately after create_edge(a, b), for
\* handles a and b of either orientation and every prior graph state.
C2_EdgeAfterCreate ==
    last.op = "create_edge" => has_edge(graph, last.left, last.right)

\* C3: a second create_edge(a, b) right after create_edge(a, b) leaves every
\* node's left and right edge lists, and so the edge count, unchanged.
C3_DuplicateNoOp ==
    [][(last.op = "create_edge" /\ last' = last) => graph' = graph]_vars

\* C4: for_each_edge and the edges iterator return each edge of the graph
\* exactly once, and nothing that is not an edge of the graph.
C4_EachEdgeOnce ==
    /\ \A e \in EdgeSet(graph) :
          /\ Count(for_each_edge(graph), e) = 1
          /\ Count(edges_iter_impl(graph), e) = 1
    /\ Range(for_each_edge(graph)) \subseteq EdgeSet(graph)
    /\ Range(edges_iter_impl(graph)) \subseteq EdgeSet(graph)

\* C5: get_edge_count() is the number of distinct edges of the graph and
\* equals the number of edges enumerated.
C5_EdgeCount ==
    /\ get_edge_count(graph) = Cardinality(EdgeSet(graph))
    /\ get_edge_count(graph) = Len(for_each_edge(graph))

\* C6: for every handle h and direction dir, the neighbours iterator yields
\* the same handles in the same order as follow_edges(h, dir).
C6_IterMatchesFollow ==
    \A h \in ExistingHandles(graph), dir \in Directions :
        handle_edges_iter_impl(graph, h, dir) = follow_edges(graph, h, dir)

\* C7: for every handle h of an existing node, sequence(flip(h)) is the
\* reverse complement of sequence(h).
C7_RevComp ==
    \A h \in ExistingHandles(graph) :
        get_sequence(graph, flip(h)) = revcomp(get_sequence(graph, h))

(***************************************************************************)
(* Actions of the hash graph: paths.                                       *)
(***************************************************************************)
\* create_path_handle with a name that is not in use
CreatePathHandle(name, is_circular) ==
    /\ Cardinality(DOMAIN paths) < MaxPaths
    /\ name \notin DOMAIN path_id
    /\ LET pid == Cardinality(DOMAIN paths)
       IN /\ path_id' = MapInsert(path_id, name, pid)
          /\ paths' = MapInsert(paths, pid, NewPath(name, pid, is_circular))
          /\ last' = [op |-> "create_path_handle", path |-> pid]
    /\ UNCHANGED <<graph, packedVars, edgeVars, nodeVars, navVars, occVars>>

AppendStep(pid, to_append) ==
    /\ pid \in DOMAIN paths
    /\ has_node(graph, id(to_append))
    /\ TotalSteps(paths) < MaxTotalSteps
    /\ LET nodes == Append(paths[pid].nodes, to_append)
           step == <<pid, Len(nodes) - 1>>
       IN /\ paths' = [paths EXCEPT ![pid].nodes = nodes]
          /\ graph' = SetOccurrence(graph, id(to_append), step[1], step[2])
          /\ last' = [op |-> "append_step", path |-> pid,
                      result |-> Step(pid, Len(nodes) - 1)]
    /\ UNCHANGED <<path_id, packedVars, edgeVars, nodeVars, navVars, occVars>>

PrependStep(pid, to_prepend) ==
    /\ pid \in DOMAIN paths
    /\ has_node(graph, id(to_prepend))
    /\ TotalSteps(paths) < MaxTotalSteps
    /\ LET g1 == BumpOccurrences(graph, paths[pid].nodes, pid)
       IN /\ paths' = [paths EXCEPT ![pid].nodes = <<to_prepend>> \o @]
          /\ graph' = SetOccurrence(g1, id(to_prepend), pid, 0)
          /\ last' = [op |-> "prepend_step", path |-> pid,
                      result |-> Step(pid, 0)]
    /\ UNCHANGED <<path_id, packedVars, edgeVars, nodeVars, navVars, occVars>>

\* rewrite_segment on steps of paths that exist, with new handles of
\* existing nodes; steps of one path have indices that form a non-empty
\* range of the path
RewriteSegment(begin, end, new_segment) ==
    /\ begin.path \in DOMAIN paths
    /\ end.path \in DOMAIN paths
    /\ \A i \in DOMAIN new_segment : has_node(graph, id(new_segment[i]))
    /\ begin.path = end.path =>
          LET path_len == Len(paths[begin.path].nodes)
              l == step_index(begin, path_len)
              r == step_index(end, path_len)
          IN /\ path_len > 0
             /\ l <= r
             /\ r < path_len
             /\ TotalSteps(paths) - (r - l + 1) + Len(new_segment)
                    <= MaxTotalSteps
    /\ LET res == rewrite_segment(graph, paths, begin, end, new_segment)
       IN /\ paths' = res.paths
          /\ graph' = res.graph
          /\ last' = [op |-> "rewrite_segment", path |-> begin.path,
                      end_path |-> end.path, panic |-> res.panic,
                      steps |-> res.steps]
    /\ UNCHANGED <<path_id, packedVars, edgeVars, nodeVars, navVars, occVars>>

PathIds == 0..(MaxPaths - 1)

StepHandles ==
    {Front(p) : p \in PathIds}
    \cup {End(p) : p \in PathIds}
    \cup {Step(p, i) : p \in PathIds, i \in 0..(MaxTotalSteps - 1)}

NextPaths ==
    \/ \E n \in NodeIds : CreateHandle(<<"A">>, n)
    \/ \E name \in PathNames : CreatePathHandle(name, FALSE)
    \/ \E p \in PathIds, h \in Handles : AppendStep(p, h)
    \/ \E p \in PathIds, h \in Handles : PrependStep(p, h)
    \/ \E b \in StepHandles, e \in StepHandles,
          seg \in SeqsUpTo(Handles, MaxSegment) :
            RewriteSegment(b, e, seg)

SpecPaths == Init /\ [][NextPaths]_vars

\* C8: occurrence-step consistency. For every path p and step index i with
\* handle h = step(p, i), (p, i) is among occurrences(h); and every (p, i)
\* among occurrences(h) is a step of p on the node of h.
C8_OccurrenceStep ==
    /\ \A p \in DOMAIN paths : \A i \in 0..(Len(paths[p].nodes) - 1) :
          <<p, i>> \in occurrences(graph, paths[p].nodes[i + 1])
    /\ \A h \in ExistingHandles(graph) : \A o \in occurrences(graph, h) :
          /\ o[1] \in DOMAIN paths
          /\ o[2] < Len(paths[o[1]].nodes)
          /\ id(paths[o[1]].nodes[o[2] + 1]) = id(h)

(***************************************************************************)
(* Actions of the packed paths.  A PathMutContext borrows the whole        *)
(* PackedGraphPaths mutably: while it is open, paths are reached through   *)
(* it only, and no path can be created.                                    *)
(***************************************************************************)
PackedNames == {<<97>>, <<98, 99>>}

PackedPathIds == 0..(MaxPaths - 1)

\* the handles stored in packed steps: the forward handles of the node ids
PackedStepHandles == {pack(n, FALSE) : n \in NodeIds}

RECURSIVE TotalPackedStepsOf(_, _)
TotalPackedStepsOf(pp, n) ==
    IF n = 0 THEN 0
    ELSE Len(pp[n].steps) + TotalPackedStepsOf(pp, n - 1)

TotalPackedSteps == TotalPackedStepsOf(packed_paths, Len(packed_paths))

\* the reference held by the open context
CtxRef ==
    [path_id |-> ctx.path_id, path |-> packed_paths[ctx.path_id + 1],
     properties |-> ctx.properties, updates |-> ctx.updates]

\* store the path of a reference back and keep the context on it
StoreRef(ref) ==
    /\ packed_paths' = [packed_paths EXCEPT ![ref.path_id + 1] = ref.path]
    /\ ctx' = [open |-> TRUE, path_id |-> ref.path_id,
               properties |-> ref.properties, updates |-> ref.updates]

\* PackedGraphPaths::create_path with a name that is not in use
CreatePath(name) ==
    /\ ~ctx.open
    /\ Len(packed_paths) < MaxPaths
    /\ name \notin DOMAIN path_names.name_id_map
    /\ packed_paths' = Append(packed_paths, NewPackedPath)
    /\ path_props' = Append(path_props, NewProperties)
    /\ path_names' = add_name(path_names, name)
    /\ last' = [op |-> "create_path", path |-> Len(packed_paths)]
    /\ UNCHANGED <<hashVars, edgeVars, nodeVars, navVars, occVars, ctx>>

\* PackedGraphPaths::get_path_mut_ctx
GetPathMutCtx(pid) ==
    /\ ~ctx.open
    /\ pid < Len(packed_paths)
    /\ LET ref == NewRefMut(pid, packed_paths[pid + 1], path_props[pid + 1])
       IN ctx' = [open |-> TRUE, path_id |-> pid,
                  properties |-> ref.properties, updates |-> ref.updates]
    /\ last' = [op |-> "get_path_mut_ctx", path |-> pid]
    /\ UNCHANGED <<hashVars, edgeVars, nodeVars, navVars, occVars, packed_paths, path_props, path_names>>

AppendHandle(handle) ==
    /\ ctx.open
    /\ TotalPackedSteps < MaxSteps
    /\ LET res == append_handle(CtxRef, handle)
       IN /\ StoreRef(res.ref)
          /\ last' = [op |-> "append_handle", path |-> ctx.path_id,
                      out |-> res.out]
    /\ UNCHANGED <<hashVars, edgeVars, nodeVars, navVars, occVars, path_props, path_names>>

PrependHandle(handle) ==
    /\ ctx.open
    /\ TotalPackedSteps < MaxSteps
    /\ LET res == prepend_handle(CtxRef, handle)
       IN /\ StoreRef(res.ref)
          /\ last' = [op |-> "prepend_handle", path |-> ctx.path_id,
                      out |-> res.out]
    /\ UNCHANGED <<hashVars, edgeVars, nodeVars, navVars, occVars, path_props, path_names>>

AppendHandles(handles) ==
    /\ ctx.open
    /\ TotalPackedSteps + Len(handles) <= MaxSteps
    /\ LET res == append_handles(CtxRef, handles)
       IN /\ StoreRef(res.ref)
          /\ last' = [op |-> "append_handles", path |-> ctx.path_id,
                      handles |-> handles, out |-> res.out]
    /\ UNCHANGED <<hashVars, edgeVars, nodeVars, navVars, occVars, path_props, path_names>>

\* PackedPath::insert_after on the path of the open context; a null step
\* returns None before anything is written
InsertAfter(ix, handle) ==
    /\ ctx.open
    /\ TotalPackedSteps < MaxSteps
    /\ ix <= Len(packed_paths[ctx.path_id + 1].steps)
    /\ packed_paths' =
          IF is_null(ix) THEN packed_paths
          ELSE [packed_paths EXCEPT ![ctx.path_id + 1] =
                    insert_after(@, ix, handle)]
    /\ last' = [op |-> "insert_after", path |-> ctx.path_id, ix |-> ix,
                result |-> IF is_null(ix) THEN 0
                           ELSE from_zero_based(
                                  Len(packed_paths[ctx.path_id + 1].steps))]
    /\ UNCHANGED <<hashVars, edgeVars, nodeVars, navVars, occVars, path_props, path_names, ctx>>

\* PackedPath::insert_before on the path of the open context
InsertBefore(ix, handle) ==
    /\ ctx.open
    /\ TotalPackedSteps < MaxSteps
    /\ ix <= Len(packed_paths[ctx.path_id + 1].steps)
    /\ packed_paths' =
          IF is_null(ix) THEN packed_paths
          ELSE [packed_paths EXCEPT ![ctx.path_id + 1] =
                    insert_before(@, ix, handle)]
    /\ last' = [op |-> "insert_before", path |-> ctx.path_id, ix |-> ix,
                result |-> IF is_null(ix) THEN 0
                           ELSE from_zero_based(
                                  Len(packed_paths[ctx.path_id + 1].steps))]
    /\ UNCHANGED <<hashVars, edgeVars, nodeVars, navVars, occVars, path_props, path_names, ctx>>

\* the end of the scope of a PathMutContext: Drop writes the property
\* record of the path
DropCtx ==
    /\ ctx.open
    /\ path_props' = [path_props EXCEPT ![ctx.path_id + 1] =
                          DropRecord(CtxRef)]
    /\ ctx' = NoCtx
    /\ last' = [op |-> "drop", path |-> ctx.path_id,
                updates |-> ctx.updates]
    /\ UNCHANGED <<hashVars, edgeVars, nodeVars, navVars, occVars, packed_paths, path_names>>

NextPacked ==
    \/ \E name \in PackedNames : CreatePath(name)
    \/ \E p \in PackedPathIds : GetPathMutCtx(p)
    \/ \E h \in PackedStepHandles : AppendHandle(h)
    \/ \E h \in PackedStepHandles : PrependHandle(h)
    \/ \E hs \in SeqsUpTo(PackedStepHandles, MaxHandles) : AppendHandles(hs)
    \/ \E ix \in 0..MaxSteps, h \in PackedStepHandles : InsertAfter(ix, h)
    \/ \E ix \in 0..MaxSteps, h \in PackedStepHandles : InsertBefore(ix, h)
    \/ DropCtx

SpecPacked == Init /\ [][NextPacked]_vars

(***************************************************************************)
(* Properties of the packed paths.                                         *)
(***************************************************************************)
\* the head and tail of a path as the program currently holds them: in the
\* open context of the path, else in the stored property record
CurrentHead(pid) ==
    IF ctx.open /\ ctx.path_id = pid THEN ctx.updates.head
    ELSE path_props[pid + 1].head

CurrentTail(pid) ==
    IF ctx.open /\ ctx.path_id = pid THEN ctx.updates.tail
    ELSE path_props[pid + 1].tail

StepsOf(pid) == 1..Len(packed_paths[pid + 1].steps)

\* C9: step-link bijectivity. In every packed path, every non-head step s
\* has next(prev(s)) = s, every non-tail step s has prev(next(s)) = s,
\* prev(head) = 0 and next(tail) = 0.
C9_StepLinks ==
    \A pid \in 0..(Len(packed_paths) - 1) :
        LET path == packed_paths[pid + 1]
            head == CurrentHead(pid)
            tail == CurrentTail(pid)
        IN /\ \A s \in StepsOf(pid) :
                /\ s # head =>
                      /\ prev_step(path, s) \in StepsOf(pid)
                      /\ next_step(path, prev_step(path, s)) = s
                /\ s # tail =>
                      /\ next_step(path, s) \in StepsOf(pid)
                      /\ prev_step(path, next_step(path, s)) = s
           /\ head \in StepsOf(pid) => prev_step(path, head) = 0
           /\ tail \in StepsOf(pid) => next_step(path, tail) = 0

\* C10: scoped write-back. When a PathMutContext ends, the stored property
\* record of its path holds the head and tail as updated in the scope.
C10_WriteBack ==
    last.op = "drop" =>
        /\ path_props[last.path + 1].head = last.updates.head
        /\ path_props[last.path + 1].tail = last.updates.tail

(***************************************************************************)
(* MultiPathMutContext: one mutable reference per path, written back       *)
(* together when the scope ends.  While it is open, ctx holds for every    *)
(* path the properties and updates of its reference, and the handles the   *)
(* scope has appended to it so far.                                        *)
(***************************************************************************)
\* PackedGraphPaths::get_multipath_mut_ctx
GetMultipathMutCtx ==
    /\ ~ctx.open
    /\ Len(packed_paths) > 0
    /\ ctx' = [open |-> TRUE,
               refs |-> [i \in 1..Len(packed_paths) |->
                           LET ref == NewRefMut(i - 1, packed_paths[i],
                                                path_props[i])
                           IN [properties |-> ref.properties,
                               updates |-> ref.updates,
                               appended |-> <<>>]]]
    /\ last' = [op |-> "get_multipath_mut_ctx"]
    /\ UNCHANGED <<hashVars, edgeVars, nodeVars, navVars, occVars, packed_paths, path_props, path_names>>

\* the reference to path pid held by the open multi-path context
MultiRef(pid) ==
    [path_id |-> pid, path |-> packed_paths[pid + 1],
     properties |-> ctx.refs[pid + 1].properties,
     updates |-> ctx.refs[pid + 1].updates]

\* one append_handle on the reference to path pid; the scheduler of the
\* scope may take the paths in any order and interleave their appends
MultiAppendHandle(pid, handle) ==
    /\ ctx.open
    /\ pid < Len(packed_paths)
    /\ TotalPackedSteps < MaxSteps
    /\ LET res == append_handle(MultiRef(pid), handle)
       IN /\ packed_paths' = [packed_paths EXCEPT ![pid + 1] = res.ref.path]
          /\ ctx' = [ctx EXCEPT
                       !.refs[pid + 1].updates = res.ref.updates,
                       !.refs[pid + 1].appended = Append(@, handle)]
    /\ last' = [op |-> "multi_append_handle", path |-> pid]
    /\ UNCHANGED <<hashVars, edgeVars, nodeVars, navVars, occVars, path_props, path_names>>

\* Drop for MultiPathMutContext
DropMultiCtx ==
    /\ ctx.open
    /\ path_props' = [i \in 1..Len(path_props) |-> DropRecord(MultiRef(i - 1))]
    /\ ctx' = NoCtx
    /\ last' = [op |-> "drop_multi",
                appended |-> [i \in 1..Len(path_props) |->
                                 ctx.refs[i].appended]]
    /\ UNCHANGED <<hashVars, edgeVars, nodeVars, navVars, occVars, packed_paths, path_names>>

NextMulti ==
    \/ \E name \in PackedNames : CreatePath(name)
    \/ GetMultipathMutCtx
    \/ \E p \in PackedPathIds, h \in PackedStepHandles :
          MultiAppendHandle(p, h)
    \/ DropMultiCtx

SpecMulti == Init /\ [][NextMulti]_vars

\* the steps a forward iteration of the path visits from step ix, following
\* next until the null step; limit bounds the number of steps visited
RECURSIVE StepsForward(_, _, _)
StepsForward(path, ix, limit) ==
    IF is_null(ix) \/ limit = 0 THEN <<>>
    ELSE <<ix>> \o StepsForward(path, next_step(path, ix), limit - 1)

\* the steps a backward iteration visits from step ix, following prev
RECURSIVE StepsBackward(_, _, _)
StepsBackward(path, ix, limit) ==
    IF is_null(ix) \/ limit = 0 THEN <<>>
    ELSE <<ix>> \o StepsBackward(path, prev_step(path, ix), limit - 1)

HandlesOf(path, ixs) == [i \in 1..Len(ixs) |-> VecGet(path.steps, ixs[i] - 1)]

\* C11: independence of the paths of a multi-path scope. After the scope
\* ends, whatever the order of the appends, every path that was empty when
\* the scope began has as its step sequence, read from its stored head,
\* exactly the handles appended to it, in order, and its stored head and
\* tail are its first and last step.
C11_MultiPathIndependent ==
    last.op = "drop_multi" =>
        \A i \in 1..Len(packed_paths) :
            LET path == packed_paths[i]
                appended == last.appended[i]
                n == Len(path.steps)
            IN (n = Len(appended) /\ n > 0) =>
                  /\ HandlesOf(path,
                        StepsForward(path, path_props[i].head, n + 1))
                       = appended
                  /\ path_props[i].head = 1
                  /\ path_props[i].tail = n

(***************************************************************************)
(* One packed path built by appends and inserts, as in the tests           *)
(* packedpathpaths_new_path and packedgraphpaths_paths_add.                *)
(***************************************************************************)
FirstName == <<97>>

NextInserts ==
    \/ CreatePath(FirstName)
    \/ GetPathMutCtx(0)
    \/ \E h \in PackedStepHandles : AppendHandle(h)
    \/ \E ix \in 0..MaxSteps, h \in PackedStepHandles : InsertAfter(ix, h)
    \/ \E ix \in 0..MaxSteps, h \in PackedStepHandles : InsertBefore(ix, h)
    \/ DropCtx

SpecInserts == Init /\ [][NextInserts]_vars

Reverse(s) == [i \in 1..Len(s) |-> s[Len(s) + 1 - i]]

\* C12: double-ended iteration. Every path built by appends and inserts
\* has a head and a tail such that the forward iteration from the head
\* visits every step of the path exactly once and the backward iteration
\* from the tail visits exactly the reverse sequence.
C12_DoubleEndedIter ==
    \A i \in 1..Len(packed_paths) :
        LET path == packed_paths[i]
            n == Len(path.steps)
        IN n > 0 =>
              \E head \in 1..n, tail \in 1..n :
                  LET fwd == StepsForward(path, head, n + 1)
                      bwd == StepsBackward(path, tail, n + 1)
                  IN /\ Len(fwd) = n
                     /\ Range(fwd) = 1..n
                     /\ bwd = Reverse(fwd)

Without(s, x) == SelectSeq(s, LAMBDA y : y # x)

\* the steps of old keep their handles and their relative order in new,
\* read forward and backward from every step, when step added is left out
SameOrderExcept(old, new, added) ==
    LET n == Len(old.steps)
    IN \A t \in 1..n :
          /\ VecGet(new.steps, t - 1) = VecGet(old.steps, t - 1)
          /\ Without(StepsForward(new, t, n + 2), added)
               = StepsForward(old, t, n + 1)
          /\ Without(StepsBackward(new, t, n + 2), added)
               = StepsBackward(old, t, n + 1)

\* C13: insert_after(s, h) makes the new step the immediate successor of s
\* and insert_before(s, h) the immediate predecessor: the links of the new
\* step, of s and of the former neighbour of s are all set, the links of
\* every other step are kept, and the other steps keep their relative
\* order.
C13_InsertLinks ==
    [][(last' # last /\ last'.op \in {"insert_after", "insert_before"}
          /\ last'.ix # 0) =>
         LET old == packed_paths[last'.path + 1]
             new == packed_paths'[last'.path + 1]
             s == last'.ix
             added == last'.result
             after == last'.op = "insert_after"
             neighbour == IF after THEN next_step(old, s)
                          ELSE prev_step(old, s)
         IN /\ added = Len(old.steps) + 1
            /\ Len(new.steps) = added
            /\ after =>
                  /\ next_step(new, s) = added
                  /\ prev_step(new, added) = s
                  /\ next_step(new, added) = neighbour
                  /\ neighbour # 0 => prev_step(new, neighbour) = added
                  /\ \A t \in 1..Len(old.steps) :
                        /\ t # s => next_step(new, t) = next_step(old, t)
                        /\ t # neighbour =>
                              prev_step(new, t) = prev_step(old, t)
            /\ ~after =>
                  /\ prev_step(new, s) = added
                  /\ next_step(new, added) = s
                  /\ prev_step(new, added) = neighbour
                  /\ neighbour # 0 => next_step(new, neighbour) = added
                  /\ \A t \in 1..Len(old.steps) :
                        /\ t # s => prev_step(new, t) = prev_step(old, t)
                        /\ t # neighbour =>
                              next_step(new, t) = next_step(old, t)
            /\ SameOrderExcept(old, new, added)]_vars

\* C14: an insert_before on the head makes the new step the head of the
\* path, and an insert_after on the tail makes the new step the tail.
C14_InsertMovesEnds ==
    [][\A pid \in PackedPathIds :
         (last' # last /\ last'.op \in {"insert_after", "insert_before"}
            /\ last'.path = pid /\ last'.ix # 0) =>
            /\ (last'.op = "insert_before" /\ last'.ix = CurrentHead(pid))
                  => CurrentHead(pid)' = last'.result
            /\ (last'.op = "insert_after" /\ last'.ix = CurrentTail(pid))
                  => CurrentTail(pid)' = last'.result]_vars

(***************************************************************************)
(* One packed path built through its mutation context by appends and       *)
(* prepends.                                                               *)
(***************************************************************************)
NextEnds ==
    \/ CreatePath(FirstName)
    \/ GetPathMutCtx(0)
    \/ \E h \in PackedStepHandles : AppendHandle(h)
    \/ \E h \in PackedStepHandles : PrependHandle(h)
    \/ DropCtx

SpecEnds == Init /\ [][NextEnds]_vars

\* C15: after append_handle or prepend_handle on a path without steps, the
\* head and the tail of the path are both the new step, and the new step
\* has prev = 0 and next = 0.
C15_FirstStep ==
    (last.op \in {"append_handle", "prepend_handle"}
       /\ Len(packed_paths[last.path + 1].steps) = 1) =>
        LET path == packed_paths[last.path + 1]
            step == last.out[1].step
        IN /\ step = 1
           /\ CurrentHead(last.path) = step
           /\ CurrentTail(last.path) = step
           /\ prev_step(path, step) = 0
           /\ next_step(path, step) = 0

\* a handle has been appended to a path without steps
C15_Witness ==
    /\ last.op = "append_handle"
    /\ Len(packed_paths[last.path + 1].steps) = 1
    /\ ctx.open
    /\ ctx.updates = [head |-> 1, tail |-> 1]

(***************************************************************************)
(* A client of EdgeLists that keeps the heads of its edge lists, as the    *)
(* node records of the graph and the tests of edges.rs do: a record is     *)
(* added in front of a list, records are removed through iter_mut on the   *)
(* head of a list, and after defragment every head goes through the map.   *)
(***************************************************************************)
ListIds == 1..ListCount

\* the targets of the edge records: hnd(1) and hnd(2), one of each parity
EdgeTargets == {pack(1, FALSE), pack(2, FALSE)}

EdgePreds ==
    {IxPred(ix) : ix \in 1..MaxRecords} \cup {ParityPred(r) : r \in {0, 1}}
    \cup {LastPred, AnyPred}

\* the predicates that do not read the next pointer of a record, which the
\* removal of an earlier record changes
StablePreds == {p \in EdgePreds : p.kind # "next_is_null"}

AppendRecord(k, handle) ==
    /\ EdgeRecordCount(edges) < MaxRecords
    /\ edges' = append_record(edges, handle, heads[k])
    /\ heads' = [heads EXCEPT ![k] = EdgeRecordCount(edges')]
    /\ last' = [op |-> "append_record"]
    /\ UNCHANGED <<hashVars, packedVars, nodeVars, navVars, occVars>>

RemoveRecordWith(k, pred) ==
    /\ LET res == remove_record_with(edges, heads[k], pred)
       IN /\ edges' = res.list
          /\ heads' = IF res.head.some
                      THEN [heads EXCEPT ![k] = res.head.value]
                      ELSE heads
          /\ last' = [op |-> "remove_record_with", result |-> res.head]
    /\ UNCHANGED <<hashVars, packedVars, nodeVars, navVars, occVars>>

RemoveAllRecordsWith(k, pred) ==
    /\ LET res == remove_all_records_with(edges, heads[k], pred)
       IN /\ edges' = res.list
          /\ heads' = [heads EXCEPT ![k] = res.head.value]
          /\ last' = [op |-> "remove_all_records_with",
                      result |-> res.head]
    /\ UNCHANGED <<hashVars, packedVars, nodeVars, navVars, occVars>>

Defragment ==
    /\ LET res == defragment(edges)
       IN /\ edges' = res.list
          /\ heads' = IF res.map.some
                      THEN [k \in ListIds |->
                              IF is_null(heads[k]) THEN 0
                              ELSE res.map.value[heads[k]]]
                      ELSE heads
          /\ last' = [op |-> "defragment", result |-> res.map]
    /\ UNCHANGED <<hashVars, packedVars, nodeVars, navVars, occVars>>

NextEdgeLists ==
    \/ \E k \in ListIds, h \in EdgeTargets : AppendRecord(k, h)
    \/ \E k \in ListIds, p \in EdgePreds : RemoveRecordWith(k, p)
    \/ \E k \in ListIds, p \in StablePreds : RemoveAllRecordsWith(k, p)
    \/ Defragment

SpecEdgeLists == Init /\ [][NextEdgeLists]_vars

\* the ids of the records that are not removed
LiveIds(e) == (1..EdgeRecordCount(e)) \ Range(e.removed_records)

\* the target handles iter meets from head, in order
TargetsFrom(e, head) ==
    LET records == iter(e, head)
    IN [i \in 1..Len(records) |-> records[i].handle]

\* the head a client holds after defragment returned result
MappedHead(result, head) ==
    IF is_null(head) \/ ~result.some THEN head ELSE result.value[head]

\* C16: defragment keeps every edge list. For every record h that is live
\* before defragment, and so for every list head, the id map is defined on h
\* and the list from map[h] has after defragment the same target handles,
\* in the same order, as the list from h had before; the null head stays
\* null.
C16_DefragmentKeepsLists ==
    [][last'.op = "defragment" =>
         /\ \A h \in LiveIds(edges) :
               /\ last'.result.some => h \in DOMAIN last'.result.value
               /\ TargetsFrom(edges', MappedHead(last'.result, h))
                    = TargetsFrom(edges, h)
         /\ \A k \in ListIds :
               /\ heads[k] \in LiveIds(edges) \cup {0}
               /\ heads'[k] = MappedHead(last'.result, heads[k])
               /\ heads[k] = 0 => heads'[k] = 0]_vars

\* defragment has moved the head of a list of two or more records
C16_Witness ==
    /\ last.op = "defragment"
    /\ last.result.some
    /\ \E k \in ListIds :
          /\ heads[k] # 0
          /\ Len(iter(edges, heads[k])) >= 2
          /\ \E h \in DOMAIN last.result.value :
                /\ last.result.value[h] = heads[k]
                /\ h # heads[k]

\* C17: after defragment with a free list that is not empty, the id map is
\* defined on exactly the ids of the surviving records, is injective and
\* keeps their order, and its values are 1..live_count; the record at
\* map[h] has the target handle record h had; the free list is empty and
\* the vector holds live_count records.
C17_DefragmentCompacts ==
    [][(last'.op = "defragment" /\ edges.removed_records # <<>>) =>
         LET live_count == EdgeListsLen(edges)
             survivors == LiveIds(edges)
         IN /\ last'.result.some
            /\ LET map == last'.result.value
               IN /\ DOMAIN map = survivors
                  /\ {map[h] : h \in survivors} = 1..live_count
                  /\ \A a \in survivors, b \in survivors :
                        /\ a < b => map[a] < map[b]
                        /\ map[a] = map[b] => a = b
                  /\ \A h \in survivors :
                        get_handle(edges', map[h]) = get_handle(edges, h)
            /\ live_count = Cardinality(survivors)
            /\ edges'.removed_records = <<>>
            /\ EdgeRecordCount(edges') = live_count]_vars

\* defragment has moved a surviving record to a smaller id
C17_Witness ==
    /\ last.op = "defragment"
    /\ last.result.some
    /\ edges.removed_records = <<>>
    /\ EdgeRecordCount(edges) >= 1
    /\ \E h \in DOMAIN last.result.value : last.result.value[h] < h
    /\ Cardinality(DOMAIN last.result.value) = EdgeRecordCount(edges)

\* C18: defragment with an empty free list returns None and leaves the
\* records and the free list as they are; so does a defragment that comes
\* right after another defragment.
C18_DefragmentNoChange ==
    [][(last'.op = "defragment"
          /\ (edges.removed_records = <<>> \/ last.op = "defragment")) =>
         /\ last'.result = None
         /\ edges' = edges
         /\ heads' = heads]_vars

\* defragment has returned None on a vector that holds two or more
\* records and has an empty free list
C18_Witness ==
    /\ last.op = "defragment"
    /\ ~last.result.some
    /\ edges.removed_records = <<>>
    /\ EdgeRecordCount(edges) >= 2

\* the ids of the records iter meets from head, in order
IdsFrom(e, head) ==
    LET records == iter(e, head)
    IN [i \in 1..Len(records) |-> records[i].ix]

\* s without its i-th element
DropAt(s, i) == SubSeq(s, 1, i - 1) \o SubSeq(s, i + 1, Len(s))

\* C19: remove_record_with(pred) on the list from head removes the first
\* record pred holds of and no other: the removed record is zeroed and its
\* id is pushed on the free list, the other records of the list follow in
\* the order they had, with their handles, from the returned head, which is
\* the old head, or its successor when the head was removed; every other
\* list is as it was; on the null list the call returns None and changes
\* nothing.
C19_RemoveFirstMatch ==
    [][\A k \in ListIds, pred \in EdgePreds :
         (last'.op = "remove_record_with" /\ RemoveRecordWith(k, pred)) =>
            LET head == heads[k]
                records == iter(edges, head)
                hits == {i \in 1..Len(records) : Holds(pred, records[i])}
            IN /\ is_null(head) =>
                     /\ last'.result = None
                     /\ edges' = edges
               /\ hits # {} =>
                     LET i == Min(hits)
                         removed == records[i].ix
                     IN /\ get_handle(edges', removed) = 0
                        /\ get_next(edges', removed) = 0
                        /\ edges'.removed_records
                             = Append(edges.removed_records, removed)
                        /\ last'.result
                             = Some(IF i = 1 THEN records[1].next ELSE head)
                        /\ IdsFrom(edges', last'.result.value)
                             = DropAt(IdsFrom(edges, head), i)
                        /\ TargetsFrom(edges', last'.result.value)
                             = DropAt(TargetsFrom(edges, head), i)
                        /\ \A j \in ListIds \ {k} :
                              /\ heads'[j] = heads[j]
                              /\ iter(edges', heads[j]) = iter(edges, heads[j])
                        /\ EdgeRecordCount(edges') = EdgeRecordCount(edges)]_vars

\* remove_record_with has removed a record behind the head of a list: the
\* head is returned and the last id on the free list is not on the list
C19_Witness ==
    /\ last.op = "remove_record_with"
    /\ last.result.some
    /\ last.result.value # 0
    /\ edges.removed_records # <<>>
    /\ \E k \in ListIds :
          /\ heads[k] = last.result.value
          /\ edges.removed_records[Len(edges.removed_records)] < heads[k]
          /\ Len(iter(edges, heads[k])) >= 2

ReachableIds ==
    UNION {Range(IdsFrom(edges, heads[k])) : k \in ListIds}

\* C21: free-list invariant of the edge records. No id is twice on the free
\* list, no record on the free list is on a list of a live head, the ids on
\* the free list and the ids on the lists together are 1..allocated
\* records, and len() is the number of records on the lists.
C21_FreeList ==
    LET removed == edges.removed_records
    IN /\ \A i \in DOMAIN removed, j \in DOMAIN removed :
             removed[i] = removed[j] => i = j
       /\ Range(removed) \cap ReachableIds = {}
       /\ Range(removed) \cup ReachableIds = 1..EdgeRecordCount(edges)
       /\ EdgeListsLen(edges) = Cardinality(ReachableIds)
       /\ \A k \in ListIds, j \in ListIds :
             k # j => Range(IdsFrom(edges, heads[k]))
                        \cap Range(IdsFrom(edges, heads[j])) = {}

\* two records are on the free list and a record is still on a list
C21_Witness ==
    /\ Len(edges.removed_records) >= 2
    /\ ReachableIds # {}
    /\ last.op \in {"remove_record_with", "remove_all_records_with"}


(***************************************************************************)
(* Actions of NodeRecords: nodes are created with any id, 0 and ids that   *)
(* are present included, and with any sequence, the empty one included;    *)
(* nodes are removed by clear_node_record.                                 *)
(***************************************************************************)
NodeSeqs == {<<>>, <<"A">>, <<"C", "G">>}

CreateNode(n_id, seq) ==
    /\ Len(node_records.node_occurrence_map) < MaxRecords
    /\ LET r == create_node(node_records, n_id, seq)
       IN /\ node_records' = r.nodes
          /\ last' = [op |-> "create_node", id |-> n_id, seq |-> seq,
                      result |-> r.result]
    /\ UNCHANGED <<hashVars, packedVars, edgeVars, navVars, occVars>>

ClearNodeRecord(n_id) ==
    /\ LET r == clear_node_record(node_records, n_id)
       IN /\ node_records' = r.nodes
          /\ last' = [op |-> "clear_node_record", id |-> n_id,
                      result |-> r.result]
    /\ UNCHANGED <<hashVars, packedVars, edgeVars, navVars, occVars>>

NextNodes ==
    \/ \E n_id \in PackedNodeIds, seq \in NodeSeqs : CreateNode(n_id, seq)
    \/ \E n_id \in PackedNodeIds : ClearNodeRecord(n_id)

SpecNodes == Init /\ [][NextNodes]_vars

\* The ids of the nodes NodeRecords holds.
LiveNodeIds(n) == {n_id \in PackedNodeIds : records_has_node(n, n_id)}

\* C22: create_node with id 0 returns None and leaves the id map with its
\* min_id and max_id, the record vectors and the sequence store as they were.
C22_ZeroIdRejected ==
    [][(last'.op = "create_node" /\ last'.id = 0)
        => (last'.result = None /\ node_records' = node_records)]_vars

C22_Witness ==
    /\ last.op = "create_node"
    /\ last.id = 0
    /\ LiveNodeIds(node_records) # {}


\* C23: create_node with an id that is present is rejected: it returns None,
\* the node keeps its record index and sequence, no record is allocated, and
\* the map from id to record index stays injective over the live nodes.
C23_DuplicateIdRejected ==
    [][(last'.op = "create_node" /\ records_has_node(node_records, last'.id))
        => /\ last'.result = None
           /\ get_index(node_records'.id_index_map, last'.id)
                = get_index(node_records.id_index_map, last'.id)
           /\ node_records'.sequences = node_records.sequences
           /\ Len(node_records'.records_vec) = Len(node_records.records_vec)
           /\ \A a, b \in LiveNodeIds(node_records') :
                  get_index(node_records'.id_index_map, a)
                    = get_index(node_records'.id_index_map, b) => a = b]_vars

\* C24: create_node with an empty sequence fails: it returns None, the id is
\* not a node afterwards and no record is allocated.
C24_EmptySequenceRejected ==
    [][(/\ last'.op = "create_node"
        /\ last'.seq = <<>>
        /\ last'.id # 0
        /\ ~records_has_node(node_records, last'.id))
        => /\ last'.result = None
           /\ ~records_has_node(node_records', last'.id)
           /\ Len(node_records'.records_vec) = Len(node_records.records_vec)]_vars

\* C25: node_count is the number of live nodes after any creations and
\* deletions of nodes, also when the node ids have gaps.
C25_NodeCount ==
    node_count(node_records) = Cardinality(LiveNodeIds(node_records))


(***************************************************************************)
(* HashGraph::divide_handle.  A panic of the source ends the call; the     *)
(* graph then is what the call had written up to that point.               *)
(***************************************************************************)
\* the greatest number of offsets of one divide_handle
MaxOffsets == 2

\* HashGraph::max_id: create_handle raises it to the greatest id inserted.
graph_max_id(g) ==
    IF DOMAIN g = {} THEN 0
    ELSE CHOOSE m \in DOMAIN g : \A n \in DOMAIN g : n <= m

get_length(g, handle) == Len(get_sequence(g, handle))

\* &s[from..to] panics unless from <= to <= s.len()
SliceOk(s, from, to) == from <= to /\ to <= Len(s)

Slice(s, from, to) == SubSeq(s, from + 1, to)

\* MutableHandleGraph::append_handle of the hash graph
graph_append_handle(g, seq) == create_handle(g, seq, graph_max_id(g) + 1)

\* the loop over subseqs: create_handle panics on an empty sequence, after
\* the handles of the earlier sequences were appended
RECURSIVE AppendSubseqs(_, _)
AppendSubseqs(g, subseqs) ==
    IF subseqs = <<>>
    THEN [graph |-> g, handles |-> <<>>, panic |-> FALSE]
    ELSE IF Head(subseqs) = <<>>
         THEN [graph |-> g, handles |-> <<>>, panic |-> TRUE]
         ELSE LET h == pack(graph_max_id(g) + 1, FALSE)
                  rest == AppendSubseqs(graph_append_handle(g, Head(subseqs)),
                                        Tail(subseqs))
              IN [graph |-> rest.graph,
                  handles |-> <<h>> \o rest.handles,
                  panic |-> rest.panic]

divide_handle(g, handle, offsets) ==
    LET node_len == get_length(g, handle)
        sequence == get_sequence(g, handle)
        fwd_offsets == IF is_reverse(handle)
                       THEN [i \in DOMAIN offsets |-> node_len - offsets[i]]
                       ELSE offsets
        fwd_handle == IF is_reverse(handle) THEN flip(handle) ELSE handle
        num_offsets == Len(fwd_offsets)
        upto(i) == IF i < num_offsets THEN fwd_offsets[i + 1] ELSE node_len
        \* `len`: the subtraction overflows when the next offset is smaller
        len(i) == upto(i) - fwd_offsets[i]
        slices_ok == \A i \in 1..num_offsets :
                        /\ upto(i) >= fwd_offsets[i]
                        /\ SliceOk(sequence, fwd_offsets[i], len(i))
        subseqs == [i \in 1..num_offsets |->
                        Slice(sequence, fwd_offsets[i], len(i))]
        app == AppendSubseqs(g, subseqs)
    IN IF ~slices_ok
       THEN [graph |-> g, result |-> <<>>, panic |-> TRUE]
       ELSE IF app.panic
       THEN [graph |-> app.graph, result |-> <<>>, panic |-> TRUE]
       ELSE IF num_offsets = 0
       THEN [graph |-> g, result |-> <<>>, panic |-> TRUE]
       ELSE
         LET result == <<handle>> \o app.handles
             last_handle == result[Len(result)]
             appended == app.graph
             orig_rights == appended[id(handle)].right_edges
             \* move the outgoing edges to the last new segment
             swapped1 == [appended EXCEPT
                            ![id(handle)].right_edges = <<result[2]>>]
             swapped2 == [swapped1 EXCEPT
                            ![id(last_handle)].right_edges = orig_rights]
             \* shrink the sequence of the starting handle
             shrunk == [swapped2 EXCEPT ![id(handle)].sequence =
                            Slice(@, 0, fwd_offsets[1])]
             \* update backwards references
             last_neighbors == handle_edges_iter_impl(shrunk, last_handle, "Right")
             Rewire(list) ==
                 [i \in DOMAIN list |->
                    IF list[i] = flip(fwd_handle)
                    THEN flip(last_handle) ELSE list[i]]
             rewired ==
                 [n \in DOMAIN shrunk |->
                    [shrunk[n] EXCEPT
                        !.left_edges =
                            IF pack(n, FALSE) \in Range(last_neighbors)
                            THEN Rewire(@) ELSE @,
                        !.right_edges =
                            IF pack(n, TRUE) \in Range(last_neighbors)
                            THEN Rewire(@) ELSE @]]
         IN [graph |-> rewired, result |-> result, panic |-> FALSE]

(***************************************************************************)
(* Actions of divide_handle on a graph with edges.                         *)
(***************************************************************************)
DivideSeqs == {<<"G", "C", "A">>, <<"A", "C">>}

DivideIds == 1..(MaxNodeId + MaxOffsets)

DivideHandles == {pack(n, r) : n \in DivideIds, r \in BOOLEAN}

\* the handles between which the edges are created
ForwardHandles == {pack(n, FALSE) : n \in NodeIds}

\* the offsets offered: 0 up to the length of the longest sequence
DivideOffsets ==
    SeqsUpTo(0..(CHOOSE n \in {Len(seq) : seq \in DivideSeqs} :
                    \A seq \in DivideSeqs : Len(seq) <= n), MaxOffsets)

\* divide_handle with offsets that do not exceed the length of the node
DivideHandle(handle, offsets) ==
    /\ has_node(graph, id(handle))
    /\ \A i \in DOMAIN offsets : offsets[i] <= get_length(graph, handle)
    /\ graph_max_id(graph) + Len(offsets) <= MaxNodeId + MaxOffsets
    /\ LET r == divide_handle(graph, handle, offsets)
       IN /\ graph' = r.graph
          /\ last' = [op |-> "divide_handle", handle |-> handle,
                      offsets |-> offsets, result |-> r.result,
                      panic |-> r.panic]
    /\ UNCHANGED <<paths, path_id, packedVars, edgeVars, nodeVars, navVars, occVars>>

NextDivide ==
    \/ \E n \in NodeIds, seq \in DivideSeqs : CreateHandle(seq, n)
    \/ \E l \in ForwardHandles, r \in ForwardHandles : CreateEdge(l, r)
    \/ \E h \in DivideHandles, offs \in DivideOffsets : DivideHandle(h, offs)

SpecDivide == Init /\ [][NextDivide]_vars

\* offsets 0 < o1 < .. < ok < length of the node of the handle
ValidOffsets(g, handle, offsets) ==
    /\ offsets # <<>>
    /\ \A i \in DOMAIN offsets :
            0 < offsets[i] /\ offsets[i] < get_length(g, handle)
    /\ \A i \in DOMAIN offsets, j \in DOMAIN offsets :
            i < j => offsets[i] < offsets[j]

\* C26: a divide_handle of a forward handle with k valid offsets returns k+1
\* handles, each with a non-empty sequence, and their sequences concatenated
\* are the sequence the node had before.
C26_DivideKeepsSequence ==
    [][(/\ last'.op = "divide_handle"
        /\ ~is_reverse(last'.handle)
        /\ ValidOffsets(graph, last'.handle, last'.offsets))
        => /\ ~last'.panic
           /\ Len(last'.result) = Len(last'.offsets) + 1
           /\ \A i \in DOMAIN last'.result :
                  get_sequence(graph', last'.result[i]) # <<>>
           /\ Flatten([i \in DOMAIN last'.result |->
                          get_sequence(graph', last'.result[i])])
                = get_sequence(graph, last'.handle)]_vars


(***************************************************************************)
(* divide_handle on a graph with paths.                                    *)
(***************************************************************************)
NextDividePaths ==
    \/ \E n \in NodeIds, seq \in DivideSeqs : CreateHandle(seq, n)
    \/ \E name \in PathNames : CreatePathHandle(name, FALSE)
    \/ \E p \in PathIds, h \in ForwardHandles : AppendStep(p, h)
    \/ \E h \in ForwardHandles, offs \in DivideOffsets : DivideHandle(h, offs)

SpecDividePaths == Init /\ [][NextDividePaths]_vars

\* the nucleotides a path of forward steps spells
PathSequence(g, nodes) ==
    Flatten([i \in DOMAIN nodes |-> get_sequence(g, nodes[i])])

\* the steps of a path with every step on handle replaced by the handles of
\* result, in order
ReplaceSteps(nodes, handle, result) ==
    Flatten([i \in DOMAIN nodes |->
                IF nodes[i] = handle THEN result ELSE <<nodes[i]>>])

\* C27: after a divide_handle of a forward handle h with valid offsets that
\* returns, every path that visited h spells the same nucleotides as before,
\* each of its steps on h is replaced by the returned handles as consecutive
\* steps, and every step of the path is among the occurrences of its node.
C27_DivideKeepsPaths ==
    [][(/\ last'.op = "divide_handle"
        /\ ~is_reverse(last'.handle)
        /\ ValidOffsets(graph, last'.handle, last'.offsets)
        /\ ~last'.panic)
        => \A p \in DOMAIN paths :
              last'.handle \in Range(paths[p].nodes)
              => /\ PathSequence(graph', paths'[p].nodes)
                      = PathSequence(graph, paths[p].nodes)
                 /\ paths'[p].nodes
                      = ReplaceSteps(paths[p].nodes, last'.handle, last'.result)
                 /\ \A i \in 0..(Len(paths'[p].nodes) - 1) :
                      <<p, i>> \in occurrences(graph', paths'[p].nodes[i + 1])]_vars

\* the handles of the nodes of a graph that divide_handle extended
DivideExisting(g) == {h \in DivideHandles : has_node(g, id(h))}

\* has_edge(a, b) <=> has_edge(flip(b), flip(a)) for all handles of g
SymmetricEdges(g) ==
    \A a \in DivideExisting(g), b \in DivideExisting(g) :
        has_edge(g, a, b) <=> has_edge(g, flip(b), flip(a))

\* C28: after a divide_handle of a forward handle h that returns
\* [h, h1..hk] on a graph with symmetric edges, the right neighbours h had
\* are the right neighbours of hk and of no other returned handle, each of
\* them has flip(hk) where it had flip(h), consecutive returned handles are
\* joined by an edge stored on both nodes, and the edges are symmetric.
C28_DivideMovesEdges ==
    [][(/\ last'.op = "divide_handle"
        /\ ~is_reverse(last'.handle)
        /\ ValidOffsets(graph, last'.handle, last'.offsets)
        /\ ~last'.panic
        /\ SymmetricEdges(graph))
        => LET h == last'.handle
               result == last'.result
               hk == result[Len(result)]
               old_rights == Range(follow_edges(graph, h, "Right"))
           IN /\ Range(follow_edges(graph', hk, "Right"))
                    = old_rights
              /\ \A i \in 1..(Len(result) - 1) :
                    /\ Range(follow_edges(graph', result[i], "Right"))
                        = {result[i + 1]}
                    /\ has_edge(graph', flip(result[i + 1]), flip(result[i]))
              /\ \A b \in old_rights :
                    has_edge(graph', flip(b), flip(hk))
              /\ SymmetricEdges(graph')]_vars

\* C29: a divide_handle with an offset that is 0 or the length of the node,
\* or with offsets that are not strictly increasing, fails and leaves the
\* graph and the paths as they were.
C29_DivideRejectsOffsets ==
    [][(/\ last'.op = "divide_handle"
        /\ last'.offsets # <<>>
        /\ ~ValidOffsets(graph, last'.handle, last'.offsets))
        => /\ last'.panic
           /\ graph' = graph
           /\ paths' = paths]_vars


\* C30: rewrite_segment(begin, end, new_handles) with new handles puts them
\* in the place of the steps begin..=end and keeps the steps before and
\* after; the two steps it returns are steps of the path, the first on the
\* first new handle and the second on the last new handle.
C30_RewriteSegmentResult ==
    [][\A b \in StepHandles, e \in StepHandles,
          seg \in SeqsUpTo(Handles, MaxSegment) :
          (/\ last'.op = "rewrite_segment"
           /\ ~last'.panic
           /\ seg # <<>>
           /\ RewriteSegment(b, e, seg))
          => LET pid == b.path
                 old == paths[pid].nodes
                 new == paths'[pid].nodes
                 l == step_index(b, Len(old))
                 r == step_index(e, Len(old))
                 first == last'.steps[1]
                 second == last'.steps[2]
             IN /\ new = SubSeq(old, 1, l) \o seg \o SubSeq(old, r + 2, Len(old))
                /\ first.kind = "Step" /\ second.kind = "Step"
                /\ first.ix < Len(new) /\ second.ix < Len(new)
                /\ new[first.ix + 1] = seg[1]
                /\ new[second.ix + 1] = seg[Len(seg)]]_vars


(***************************************************************************)
(* rewrite_segment with steps of any two paths.                            *)
(***************************************************************************)
\* the steps and the segments offered to rewrite_segment: the ends and
\* the first step of the first two paths, no handle or the first handle
RewriteSteps ==
    UNION {{Front(p), End(p), Step(p, 0)} : p \in {0, 1}}

RewriteSegments == {<<>>, <<pack(1, FALSE)>>}

NextRewrite ==
    \/ \E n \in NodeIds : CreateHandle(<<"A">>, n)
    \/ \E name \in PathNames : CreatePathHandle(name, FALSE)
    \/ \E p \in PathIds, h \in ForwardHandles : AppendStep(p, h)
    \/ \E b \in RewriteSteps, e \in RewriteSteps, seg \in RewriteSegments :
            RewriteSegment(b, e, seg)

SpecRewrite == Init /\ [][NextRewrite]_vars

\* C31: rewrite_segment with begin and end on different paths fails, and no
\* path and no occurrence has been changed when it fails.
C31_RewriteAcrossPathsFails ==
    [][(last'.op = "rewrite_segment" /\ last'.path # last'.end_path)
        => /\ last'.panic
           /\ paths' = paths
           /\ graph' = graph]_vars

C31_Witness ==
    /\ last.op = "rewrite_segment"
    /\ last.panic
    /\ \A p \in PathIds : p \in DOMAIN paths /\ paths[p].nodes # <<>>


(***************************************************************************)
(* Step handles of the hash graph's paths: the two sentinels Front and     *)
(* End of a path and the steps between them.                               *)
(***************************************************************************)
path_begin(pid) == Step(pid, 0)

path_end(pid) == End(pid)

path_back(ps, pid) == Step(pid, get_step_count(ps, pid) - 1)

path_front_end(pid) == Front(pid)

has_next_step(step) == step.kind = "End"

has_previous_step(step) == step.kind = "Front"

\* next_step that compares the index with the number of steps
graph_next_step_past_end(ps, step) ==
    CASE step.kind = "Front" -> path_begin(step.path)
      [] step.kind = "End" -> path_end(step.path)
      [] step.kind = "Step" ->
            IF step.ix < get_step_count(ps, step.path)
            THEN Step(step.path, step.ix + 1)
            ELSE path_end(step.path)

\* HashGraph::next_step
graph_next_step(ps, step) ==
    CASE step.kind = "Front" -> path_begin(step.path)
      [] step.kind = "End" -> path_end(step.path)
      [] step.kind = "Step" ->
            IF step.ix < get_step_count(ps, step.path) - 1
            THEN Step(step.path, step.ix + 1)
            ELSE path_end(step.path)

\* HashGraph::previous_step
graph_previous_step(ps, step) ==
    CASE step.kind = "Front" -> path_front_end(step.path)
      [] step.kind = "End" -> path_back(ps, step.path)
      [] step.kind = "Step" ->
            IF step.ix > 0
            THEN Step(step.path, step.ix - 1)
            ELSE path_end(step.path)

(***************************************************************************)
(* Actions of a client that holds one step handle of a non-empty path and  *)
(* moves it with next_step and previous_step.                              *)
(***************************************************************************)
Holding == cursor # NoCursor

PathFrontEnd(pid) ==
    /\ pid \in DOMAIN paths
    /\ paths[pid].nodes # <<>>
    /\ cursor' = path_front_end(pid)
    /\ last' = [op |-> "path_front_end"]
    /\ UNCHANGED <<hashVars, packedVars, edgeVars, nodeVars, occVars>>

PathEnd(pid) ==
    /\ pid \in DOMAIN paths
    /\ paths[pid].nodes # <<>>
    /\ cursor' = path_end(pid)
    /\ last' = [op |-> "path_end"]
    /\ UNCHANGED <<hashVars, packedVars, edgeVars, nodeVars, occVars>>

NextStep ==
    /\ Holding
    /\ cursor' = graph_next_step(paths, cursor)
    /\ last' = [op |-> "next_step"]
    /\ UNCHANGED <<hashVars, packedVars, edgeVars, nodeVars, occVars>>

PreviousStep ==
    /\ Holding
    /\ cursor' = graph_previous_step(paths, cursor)
    /\ last' = [op |-> "previous_step"]
    /\ UNCHANGED <<hashVars, packedVars, edgeVars, nodeVars, occVars>>

HasNextStep ==
    /\ Holding
    /\ last' = [op |-> "has_next_step", result |-> has_next_step(cursor)]
    /\ UNCHANGED <<hashVars, packedVars, edgeVars, nodeVars, navVars, occVars>>

HasPreviousStep ==
    /\ Holding
    /\ last' = [op |-> "has_previous_step",
                result |-> has_previous_step(cursor)]
    /\ UNCHANGED <<hashVars, packedVars, edgeVars, nodeVars, navVars, occVars>>

NextNav ==
    \/ \E n \in NodeIds : CreateHandle(<<"A">>, n)
    \/ \E name \in PathNames : CreatePathHandle(name, FALSE)
    \/ \E p \in PathIds, h \in ForwardHandles : AppendStep(p, h)
    \/ \E p \in PathIds : PathFrontEnd(p)
    \/ \E p \in PathIds : PathEnd(p)
    \/ NextStep
    \/ PreviousStep
    \/ HasNextStep
    \/ HasPreviousStep

SpecNav == Init /\ [][NextNav]_vars

\* the step handle is on the last step of its path
OnLastStep(ps, step) ==
    step.kind = "Step" /\ step.ix = get_step_count(ps, step.path) - 1

\* C32: on a non-empty path, next_step of Front is the first step, next_step
\* of the last step is End, previous_step of End is the last step, and
\* previous_step of Front is Front.
C32_SentinelNavigation ==
    [][/\ (last'.op = "next_step" /\ cursor.kind = "Front")
            => cursor' = Step(cursor.path, 0)
       /\ (last'.op = "next_step" /\ OnLastStep(paths, cursor))
            => cursor' = End(cursor.path)
       /\ (last'.op = "previous_step" /\ cursor.kind = "End")
            => /\ OnLastStep(paths, cursor')
               /\ cursor'.path = cursor.path
       /\ (last'.op = "previous_step" /\ cursor.kind = "Front")
            => cursor' = Front(cursor.path)]_vars

C32_Witness ==
    /\ last.op = "next_step"
    /\ cursor.kind = "End"
    /\ get_step_count(paths, cursor.path) >= 2


\* C33: has_next_step(s) is true exactly when s is not the End sentinel, and
\* has_previous_step(s) is true exactly when s is not the Front sentinel.
C33_HasStep ==
    [][/\ last'.op = "has_next_step"
            => (last'.result <=> cursor.kind # "End")
       /\ last'.op = "has_previous_step"
            => (last'.result <=> cursor.kind # "Front")]_vars

(***************************************************************************)
(* Traversals: once the paths are built, a client takes End and applies    *)
(* previous_step again and again, or takes Front and applies next_step     *)
(* again and again.                                                        *)
(***************************************************************************)
BuildPaths ==
    /\ ~Holding
    /\ \/ \E n \in NodeIds : CreateHandle(<<"A">>, n)
       \/ \E name \in PathNames : CreatePathHandle(name, FALSE)
       \/ \E p \in PathIds, h \in ForwardHandles : AppendStep(p, h)

StartBackward == ~Holding /\ \E p \in PathIds : PathEnd(p)

StartForward == ~Holding /\ \E p \in PathIds : PathFrontEnd(p)

BackwardStep == last.op \in {"path_end", "previous_step"} /\ PreviousStep

ForwardStep == last.op \in {"path_front_end", "next_step"} /\ NextStep

NextTraverse ==
    \/ BuildPaths
    \/ StartBackward
    \/ StartForward
    \/ BackwardStep
    \/ ForwardStep

\* the loop of a traversal goes on: its next call is made
SpecTraverse ==
    /\ Init
    /\ [][NextTraverse]_vars
    /\ WF_vars(BackwardStep)
    /\ WF_vars(ForwardStep)

\* C40: a traversal that starts at End of a non-empty path and applies
\* previous_step again and again reaches Front and stays there; one that
\* starts at Front and applies next_step again and again reaches End and
\* stays there.
C40_TraversalsEnd ==
    /\ (last.op = "path_end") ~> [](cursor.kind = "Front")
    /\ (last.op = "path_front_end") ~> [](cursor.kind = "End")


(***************************************************************************)
(* Names of the packed paths.                                              *)
(***************************************************************************)
\* PackedIntVec::iter_slice(offset, len): the len elements from offset on
iter_slice(v, offset, len) == SubSeq(v, offset + 1, offset + len)

\* PackedPathNames::name_iter
name_iter(pn, pid) ==
    IF pid >= Len(pn.lengths)
    THEN None
    ELSE LET offset == VecGet(pn.offsets, pid)
             len == VecGet(pn.lengths, pid)
         IN Some(iter_slice(pn.names, offset, len))

\* PathNames::get_path_name and get_path_id of PackedGraphPaths
get_path_name(pn, pid) == name_iter(pn, pid)

get_path_id(pn, name) ==
    IF name \in DOMAIN pn.name_id_map
    THEN Some(pn.name_id_map[name])
    ELSE None

\* C34: after any create_path calls with distinct names, get_path_id(name)
\* is the id of a path, the ids of two names differ, and get_path_name of
\* that id yields the bytes of the name.
C34_NameRoundTrip ==
    \A name \in DOMAIN path_names.name_id_map :
        LET found == get_path_id(path_names, name)
        IN /\ found.some
           /\ found.value < Len(packed_paths)
           /\ \A other \in DOMAIN path_names.name_id_map :
                get_path_id(path_names, other) = found => other = name
           /\ get_path_name(path_names, found.value) = Some(name)


(***************************************************************************)
(* NodeOccurrences: the occurrence records (path id, step, next) of the    *)
(* packed graph, in three vectors with one element per record.             *)
(***************************************************************************)
OccurRecordCount(o) == Len(o.path_ids)

\* NodeOccurrences::append_record
occur_append_record(o) ==
    [list |-> [o EXCEPT !.path_ids = Append(@, 0),
                        !.node_occur_offsets = Append(@, 0),
                        !.node_occur_next = Append(@, 0)],
     ix |-> from_zero_based(OccurRecordCount(o))]

\* NodeOccurrences::append_entry
append_entry(o, path, offset, next) ==
    [list |-> [o EXCEPT !.path_ids = Append(@, path),
                        !.node_occur_offsets = Append(@, offset),
                        !.node_occur_next = Append(@, next)],
     ix |-> from_zero_based(OccurRecordCount(o))]

\* NodeOccurrences::prepend_occurrence; panic: unwrap of the null index.
\* rec is the record it allocates (the function itself returns nothing).
prepend_occurrence(o, ix, path, offset) ==
    IF is_null(ix)
    THEN [list |-> o, rec |-> 0, panic |-> TRUE]
    ELSE LET appended == occur_append_record(o)
             next == VecGet(appended.list.node_occur_next, ix - 1)
             rec_ix == appended.ix - 1
         IN [list |-> [appended.list EXCEPT
                          !.path_ids = VecSet(@, rec_ix, path),
                          !.node_occur_offsets = VecSet(@, rec_ix, offset),
                          !.node_occur_next = VecSet(@, rec_ix, next)],
             rec |-> appended.ix,
             panic |-> FALSE]

\* NodeOccurrences::get_record
occur_get_record(o, ix) ==
    IF is_null(ix) \/ ix - 1 >= OccurRecordCount(o)
    THEN None
    ELSE Some([path_id |-> VecGet(o.path_ids, ix - 1),
               offset |-> VecGet(o.node_occur_offsets, ix - 1),
               next |-> VecGet(o.node_occur_next, ix - 1)])

\* NodeOccurrences::iter with OccurrencesIter: the (path id, step) pairs met
\* by following next from head; limit bounds the records visited
RECURSIVE OccurIter(_, _, _)
OccurIter(o, ix, limit) ==
    LET rec == occur_get_record(o, ix)
    IN IF ~rec.some \/ limit = 0 THEN <<>>
       ELSE <<<<rec.value.path_id, rec.value.offset>>>>
            \o OccurIter(o, rec.value.next, limit - 1)

occur_iter(o, head) == OccurIter(o, head, OccurRecordCount(o) + 1)

(***************************************************************************)
(* Actions of a client that keeps the head of one occurrence list.         *)
(***************************************************************************)
OccurOffsets == {1, 2}

\* the first entries of a list: append_entry in front of the head
AppendEntry(path, offset) ==
    /\ OccurRecordCount(occurs) < MaxRecords
    /\ LET r == append_entry(occurs, path, offset, occur_head)
       IN /\ occurs' = r.list
          /\ occur_head' = r.ix
          /\ last' = [op |-> "append_entry"]
    /\ UNCHANGED <<hashVars, packedVars, edgeVars, nodeVars, navVars>>

\* prepend_occurrence on the head; the record it allocates is taken as the
\* head when the call returns
PrependOccurrence(path, offset) ==
    /\ OccurRecordCount(occurs) < MaxRecords
    /\ LET r == prepend_occurrence(occurs, occur_head, path, offset)
       IN /\ occurs' = r.list
          /\ occur_head' = IF r.panic THEN occur_head ELSE r.rec
          /\ last' = [op |-> "prepend_occurrence", path |-> path,
                      offset |-> offset, panic |-> r.panic]
    /\ UNCHANGED <<hashVars, packedVars, edgeVars, nodeVars, navVars>>

NextOccurs ==
    \/ \E p \in PackedPathIds, off \in OccurOffsets : AppendEntry(p, off)
    \/ \E p \in PackedPathIds, off \in OccurOffsets : PrependOccurrence(p, off)

SpecOccurs == Init /\ [][NextOccurs]_vars

\* C35: prepend_occurrence(head, path_id, step_ix) on a list with entries
\* allocates a record with (path_id, step_ix) and the old head as its next:
\* from the new record the list is (path_id, step_ix), then all the entries
\* that were reachable from head, in their order.
C35_PrependOccurrence ==
    [][(last'.op = "prepend_occurrence" /\ ~is_null(occur_head))
        => /\ ~last'.panic
           /\ occur_get_record(occurs', occur_head').value.next = occur_head
           /\ occur_iter(occurs', occur_head')
                = <<<<last'.path, last'.offset>>>>
                    \o occur_iter(occurs, occur_head)]_vars


(***************************************************************************)
(* The node id index map on its own: append_node_id with distinct ids in   *)
(* any order, each with a record index of the caller's choice.             *)
(***************************************************************************)
IdMapIds == 0..(MaxNodeId + 2)

\* the record index given with each id appended so far
Given == IF last.op = "append_node_id" THEN last.given ELSE <<>>

AppendNodeId(n_id, next_ix) ==
    /\ n_id \notin DOMAIN Given
    /\ LET r == append_node_id(node_records.id_index_map, n_id, next_ix)
       IN /\ node_records' = [node_records EXCEPT !.id_index_map = r.map]
          /\ last' = [op |-> "append_node_id",
                      given |-> IF r.ok THEN (n_id :> next_ix) @@ Given
                                ELSE Given,
                      ok |-> r.ok]
    /\ UNCHANGED <<hashVars, packedVars, edgeVars, navVars, occVars>>

NextIdMap ==
    \E n_id \in IdMapIds, next_ix \in 1..MaxRecords : AppendNodeId(n_id, next_ix)

SpecIdMap == Init /\ [][NextIdMap]_vars

\* C36: after append_node_id calls with distinct non-zero ids in any order,
\* get_index(id) is the record index given with id, get_index of an id never
\* appended is None, and the deque has max_id - min_id + 1 entries.
C36_IdMapResolves ==
    LET m == node_records.id_index_map
    IN /\ \A n_id \in IdMapIds :
            get_index(m, n_id) = IF n_id \in DOMAIN Given
                                 THEN Some(Given[n_id]) ELSE None
       /\ DOMAIN Given # {} => id_index_map_len(m) = m.max_id - m.min_id + 1
       /\ 0 \notin DOMAIN Given

C36_Witness ==
    /\ Cardinality(DOMAIN Given) >= 3
    /\ id_index_map_len(node_records.id_index_map) > Cardinality(DOMAIN Given)


\* C37: clear_node_record(id) on a live node leaves both edge list heads of
\* its record 0, its occurrence head 0 and its sequence empty, has_node(id)
\* is false and id is the last entry of removed_nodes; on an absent id it
\* returns None and changes nothing.
C37_ClearNodeRecord ==
    [][last'.op = "clear_node_record"
        => IF records_has_node(node_records, last'.id)
           THEN LET rec_id == get_index(node_records.id_index_map,
                                        last'.id).value
                    n == node_records'
                IN /\ last'.result.some
                   /\ VecGet(n.records_vec, to_record_ix(rec_id, 2, 0)) = 0
                   /\ VecGet(n.records_vec, to_record_ix(rec_id, 2, 1)) = 0
                   /\ VecGet(n.node_occurrence_map, rec_id - 1) = 0
                   /\ Len(n.sequences[rec_id]) = 0
                   /\ ~records_has_node(n, last'.id)
                   /\ n.removed_nodes
                        = Append(node_records.removed_nodes, last'.id)
           ELSE last'.result = None /\ node_records' = node_records]_vars


(***************************************************************************)
(* append_handles against one append_handle per handle.                    *)
(***************************************************************************)
\* append_handle called for each handle in order, collecting the updates
RECURSIVE AppendEach(_, _)
AppendEach(acc, handles) ==
    IF handles = <<>> THEN acc
    ELSE LET res == append_handle(acc.ref, Head(handles))
         IN AppendEach([ref |-> res.ref, out |-> acc.out \o res.out],
                       Tail(handles))

\* C38: append_handles(hs) leaves the path, its head and tail, and the
\* returned StepUpdates as one append_handle per handle of hs in order
\* does: the new steps follow the previous ones in the given order, the
\* tail is the step of the last handle, and each update carries the step
\* of its handle.
C38_AppendHandlesIsRepeatedAppend ==
    [][last'.op = "append_handles"
        => LET each == AppendEach([ref |-> CtxRef, out |-> <<>>],
                                  last'.handles)
           IN /\ packed_paths'[last'.path + 1] = each.ref.path
              /\ ctx'.updates = each.ref.updates
              /\ last'.out = each.out]_vars


(***************************************************************************)
(* HashGraph: creating and destroying paths.                               *)
(***************************************************************************)
\* both read the name map path_id, not paths
get_path_count(names) == Cardinality(DOMAIN names)

has_path(names, name) == name \in DOMAIN names

\* destroy_path of a path that exists: the occurrences of the path are
\* removed from the nodes of its steps, then the path from paths
destroy_path(g, ps, pid) ==
    [graph |-> RemoveOccurrences(g, ps[pid].nodes, pid),
     paths |-> MapRemove(ps, pid)]

DestroyPath(pid) ==
    /\ pid \in DOMAIN paths
    /\ LET res == destroy_path(graph, paths, pid)
       IN /\ graph' = res.graph
          /\ paths' = res.paths
          /\ last' = [op |-> "destroy_path", path |-> pid,
                      name |-> paths[pid].name]
    /\ UNCHANGED <<path_id, packedVars, edgeVars, nodeVars, navVars, occVars>>

DestroyNames == {"p1", "p2", "p3"}

NextDestroy ==
    \/ CreateHandle(<<"A">>, 1)
    \/ \E name \in DestroyNames : CreatePathHandle(name, FALSE)
    \/ \E p \in PathIds : AppendStep(p, pack(1, FALSE))
    \/ \E p \in PathIds : DestroyPath(p)

SpecDestroy == Init /\ [][NextDestroy]_vars

\* C39: create_path_handle returns an id no live path has and leaves every
\* existing path as it was; destroy_path(id) makes has_path of the path's
\* name false and lowers the path count by one.
C39_FreshPathIds ==
    [][/\ last'.op = "create_path_handle"
          => /\ last'.path \notin DOMAIN paths
             /\ \A p \in DOMAIN paths : paths'[p] = paths[p]
       /\ last'.op = "destroy_path"
          => /\ ~has_path(path_id', last'.name)
             /\ get_path_count(path_id') = get_path_count(path_id) - 1]_vars

====
